---- MODULE Spec2Model ----
(***************************************************************************)
(* Model of the fallback request executor (src/src/ai_helper.py), the      *)
(* usage ledger (src/src/helpers/usage_tracker.py) and the configuration   *)
(* helper (src/src/helpers/config_helper.py).                              *)
(*                                                                         *)
(* Strings that may contain the provider separator '/' are modelled as     *)
(* non-empty sequences of segments: <<"openai", "gpt">> is "openai/gpt".   *)
(* Provider names are single segments.  Costs are integers in units of     *)
(* the smallest price step.                                                *)
(***************************************************************************)
EXTENDS Integers, Sequences, FiniteSets, TLC

\* ------------------------------------------------------------------ bounds
MaxOverride == 2
MaxSys == 2

\* ------------------------------------------------------- string operations
\* '/' in s
HasSlash(s) == Len(s) > 1

\* s.split('/', 1)[-1]
SplitLast(s) == IF Len(s) > 1 THEN Tail(s) ELSE s

\* f"{provider}/{model}"
FullName(provider, model) == <<provider>> \o model

\* sequences over S of length at most n
SeqUpTo(S, n) == UNION {[1..k -> S] : k \in 0..n}

\* ------------------------------------------------------------ AiHelper data
providers == {"openai", "anthropic", "google", "open_router"}

Item(model, provider) == [model |-> model, provider |-> provider]

\* ---------------------------------------------------- _build_fallback_chain
\* the per-call part of the chain, lines 275-289
AgentFallbacks(agent_config) ==
    LET keys == DOMAIN agent_config
        single ==
            IF "fallback_model" \in keys /\ "fallback_provider" \in keys
            THEN LET fm == agent_config["fallback_model"]
                     fp == agent_config["fallback_provider"]
                 IN  <<Item(IF HasSlash(fm) /\ fp # "open_router"
                            THEN SplitLast(fm) ELSE fm, fp)>>
            ELSE << >>
        lst == IF "fallback_chain" \in keys THEN agent_config["fallback_chain"]
               ELSE << >>
        norm == [i \in 1..Len(lst) |->
                    Item(IF HasSlash(lst[i].model) /\ lst[i].provider # "open_router"
                         THEN SplitLast(lst[i].model) ELSE lst[i].model,
                         lst[i].provider)]
    IN  IF keys = {} THEN << >> ELSE single \o norm

\* ConfigHelper.get_fallback_model / get_fallback_provider / get_fallback_chain
get_fallback_model(configuration) == configuration.default_models.primary.model
get_fallback_provider(configuration) == configuration.default_models.primary.provider
get_fallback_chain(configuration) == configuration.default_models.fallback_chain

\* variant: the system entries are normalised like the caller's
SystemFallbacksStripped(configuration, raiseAt) ==
    LET Strip(item) == Item(IF HasSlash(item.model) /\ item.provider # "open_router"
                            THEN SplitLast(item.model) ELSE item.model, item.provider)
    IN  IF raiseAt \in {"model", "provider"} THEN << >>
        ELSE LET first == <<Strip(Item(get_fallback_model(configuration),
                                       get_fallback_provider(configuration)))>>
             IN  IF raiseAt = "chain" THEN first
                 ELSE first \o [i \in 1..Len(get_fallback_chain(configuration)) |->
                                  Strip(get_fallback_chain(configuration)[i])]

\* the system part of the chain, lines 292-300; raiseAt names the config read
\* that raises ("none" when all three reads return)
SystemFallbacks(configuration, raiseAt) ==
    IF raiseAt \in {"model", "provider"} THEN << >>
    ELSE LET first == <<Item(get_fallback_model(configuration),
                             get_fallback_provider(configuration))>>
         IN  IF raiseAt = "chain" THEN first
             ELSE first \o [i \in 1..Len(get_fallback_chain(configuration)) |->
                              Item(get_fallback_chain(configuration)[i].model,
                                   get_fallback_chain(configuration)[i].provider)]

\* variant: the system fallbacks are appended before the per-call overrides
RawChainSystemFirst(primary_model, primary_provider, agent_config, configuration, raiseAt) ==
    LET primary_model_name == IF primary_provider # "open_router"
                              THEN SplitLast(primary_model) ELSE primary_model
    IN  <<Item(primary_model_name, primary_provider)>>
        \o SystemFallbacks(configuration, raiseAt)
        \o AgentFallbacks(agent_config)

\* fallback_chain as it stands at line 301, before the duplicates are removed
RawChain(primary_model, primary_provider, agent_config, configuration, raiseAt) ==
    LET primary_model_name == IF primary_provider # "open_router"
                              THEN SplitLast(primary_model) ELSE primary_model
    IN  <<Item(primary_model_name, primary_provider)>>
        \o AgentFallbacks(agent_config)
        \o SystemFallbacks(configuration, raiseAt)

ItemKey(item) == FullName(item.provider, item.model)

\* lines 303-308: keep an item iff its key was not seen before
RECURSIVE UniqueChain(_, _)
UniqueChain(chain, seen) ==
    IF chain = << >> THEN << >>
    ELSE LET key == ItemKey(Head(chain))
         IN  IF key \notin seen
             THEN <<Head(chain)>> \o UniqueChain(Tail(chain), seen \cup {key})
             ELSE UniqueChain(Tail(chain), seen)

Reverse(s) == [i \in 1..Len(s) |-> s[Len(s) + 1 - i]]

\* variant: the duplicates are not removed
BuildFallbackChainNoDedup(primary_model, primary_provider, agent_config, configuration, raiseAt) ==
    RawChain(primary_model, primary_provider, agent_config, configuration, raiseAt)

\* variant: the last occurrence of an identity is kept instead of the first
BuildFallbackChainKeepLast(primary_model, primary_provider, agent_config, configuration, raiseAt) ==
    Reverse(UniqueChain(Reverse(RawChain(primary_model, primary_provider, agent_config,
                                         configuration, raiseAt)), {}))

BuildFallbackChain(primary_model, primary_provider, agent_config, configuration, raiseAt) ==
    UniqueChain(RawChain(primary_model, primary_provider, agent_config,
                         configuration, raiseAt), {})

\* ------------------------------------------------------------ ConfigHelper
\* the fields of Config that are lists (lines 23-24)
ListKeys == {"file_capable_models", "excluded_models"}

\* the defaults of the optional fields of Config, lines 22-25
ConfigDefaults ==
    [model_mappings |-> << >>, file_capable_models |-> << >>, excluded_models |-> << >>, mode |-> "strict"]

\* _load, lines 35-37: Config(**json.load(f))
LoadConfig(file) ==
    [k \in (DOMAIN file) \cup (DOMAIN ConfigDefaults) |->
        IF k \in DOMAIN file THEN file[k] ELSE ConfigDefaults[k]]

\* _save, lines 39-41: the dump of the configuration; strings, lists and
\* dicts of strings are written as they are
SaveConfig(configuration) == configuration

\* variant: the value is put in front of the list
AppendConfigListFront(configuration, key, value) ==
    IF key \notin DOMAIN configuration
    THEN [error |-> "none", configuration |-> configuration, save |-> TRUE]
    ELSE IF key \notin ListKeys
    THEN [error |-> "ValueError", configuration |-> configuration, save |-> FALSE]
    ELSE [error |-> "none", save |-> TRUE,
          configuration |-> [configuration EXCEPT ![key] = <<value>> \o @]]

\* append_config_list, lines 49-54: the error raised ("none" when it
\* returns), the configuration afterwards and whether _save was reached.
\* A key the configuration does not have reads as a new empty list, which
\* takes the value and is dropped.
AppendConfigList(configuration, key, value) ==
    IF key \notin DOMAIN configuration
    THEN [error |-> "none", configuration |-> configuration, save |-> TRUE]
    ELSE IF key \notin ListKeys
    THEN [error |-> "ValueError", configuration |-> configuration, save |-> FALSE]
    ELSE [error |-> "none", save |-> TRUE,
          configuration |-> [configuration EXCEPT ![key] = Append(@, value)]]

\* ------------------------------------------------------------ UsageTracker
\* Optional values: None is << >>, a present value v is <<v>>.
None == << >>
Some(v) == <<v>>

\* variant: the default is taken whatever the value is
OrDefaultAlways(x, d) == d

\* Python's "x or d" for an optional integer: d when x is None or 0
OrDefault(x, d) == IF x = None \/ x[1] = 0 THEN d ELSE x[1]

\* Days are numbered; strftime("%Y-%m") of a day is its month number.
DaysPerMonth == 2
MonthOf(day) == (day - 1) \div DaysPerMonth + 1

\* pydantic_ai Usage() as constructed at line 364 when the report has none
DefaultUsage ==
    [request_tokens |-> None, response_tokens |-> None,
     total_tokens |-> None, requests |-> Some(0)]

\* HelperUsage(), lines 283-289
EmptyUsage ==
    [usage_today |-> 0, usage_this_month |-> 0,
     daily_usage |-> << >>, daily_tool_usage |-> << >>,
     fill_percentage_by_pydantic_model |-> << >>,
     fill_percentage_by_llm_model |-> << >>]

\* a quotient a / b kept exact
Quot(a, b) == [num |-> a, den |-> b]

\* variant: the average is taken before the new percentage is added
UpdateStatsStaleAverage(stats, name, fill_percentage) ==
    LET old == IF name \in DOMAIN stats THEN stats[name]
               ELSE [average |-> Quot(0, 1), count |-> 0, sum_total |-> 0]
        cnt == old.count + 1
        sum == old.sum_total + fill_percentage
        new == [average |-> Quot(old.sum_total, cnt), count |-> cnt, sum_total |-> sum]
    IN  [n \in (DOMAIN stats) \cup {name} |-> IF n = name THEN new ELSE stats[n]]

\* one tracker of _update_fill_percentage_stats, lines 340-345 / 347-352
UpdateStats(stats, name, fill_percentage) ==
    LET old == IF name \in DOMAIN stats THEN stats[name]
               ELSE [average |-> Quot(0, 1), count |-> 0, sum_total |-> 0]
        cnt == old.count + 1
        sum == old.sum_total + fill_percentage
        new == [average |-> Quot(sum, cnt), count |-> cnt, sum_total |-> sum]
    IN  [n \in (DOMAIN stats) \cup {name} |-> IF n = name THEN new ELSE stats[n]]

\* variant: the counter of a tool is looked up by its name only
CountToolAnyDay(daily_tool_usage, tool_name, day) ==
    LET hits == {i \in DOMAIN daily_tool_usage : daily_tool_usage[i].tool_name = tool_name}
        first == CHOOSE i \in hits : \A j \in hits : i <= j
    IN  IF hits # {}
        THEN [daily_tool_usage EXCEPT ![first].calls = @ + 1]
        ELSE Append(daily_tool_usage,
                    [month |-> MonthOf(day), day |-> day,
                     tool_name |-> tool_name, calls |-> 1])

\* lines 405-416: one pass of the loop, the first item of the day and
\* tool is incremented, or a new item with calls = 1 is appended
CountTool(daily_tool_usage, tool_name, day) ==
    LET hits == {i \in DOMAIN daily_tool_usage :
                   /\ daily_tool_usage[i].day = day
                   /\ daily_tool_usage[i].tool_name = tool_name}
        first == CHOOSE i \in hits : \A j \in hits : i <= j
    IN  IF hits # {}
        THEN [daily_tool_usage EXCEPT ![first].calls = @ + 1]
        ELSE Append(daily_tool_usage,
                    [month |-> MonthOf(day), day |-> day,
                     tool_name |-> tool_name, calls |-> 1])

\* lines 404-416: one pass of the loop per tool name called
RECURSIVE CountTools(_, _, _)
CountTools(daily_tool_usage, tool_names, day) ==
    IF tool_names = << >> THEN daily_tool_usage
    ELSE CountTools(CountTool(daily_tool_usage, Head(tool_names), day), Tail(tool_names), day)

RECURSIVE SumCost(_, _, _)
SumCost(daily_usage, field, value) ==
    IF daily_usage = << >> THEN 0
    ELSE (IF Head(daily_usage)[field] = value THEN Head(daily_usage).cost ELSE 0)
         + SumCost(Tail(daily_usage), field, value)

\* _calculate_usage_today / _calculate_usage_this_month, read at clock value day
CalculateUsageToday(daily_usage, day) == SumCost(daily_usage, "day", day)
CalculateUsageThisMonth(daily_usage, day) == SumCost(daily_usage, "month", MonthOf(day))

\* variant: the service of a bucket is compared with the model name
FindUsageItemWrongService(daily_usage, day, model, service, pname) ==
    LET hits == {i \in DOMAIN daily_usage :
                    /\ daily_usage[i].day = day
                    /\ daily_usage[i].model = model
                    /\ daily_usage[i].service = model
                    /\ daily_usage[i].pydantic_model_name = pname}
    IN  IF hits = {} THEN 0 ELSE CHOOSE i \in hits : \A j \in hits : i <= j

\* variant: a bucket is looked up by day and model only
FindUsageItemByModel(daily_usage, day, model, service, pname) ==
    LET hits == {i \in DOMAIN daily_usage :
                    /\ daily_usage[i].day = day
                    /\ daily_usage[i].model = model}
    IN  IF hits = {} THEN 0 ELSE CHOOSE i \in hits : \A j \in hits : i <= j

\* index of the first bucket with the key, 0 when there is none (lines 374-381)
FindUsageItem(daily_usage, day, model, service, pname) ==
    LET hits == {i \in DOMAIN daily_usage :
                    /\ daily_usage[i].day = day
                    /\ daily_usage[i].model = model
                    /\ daily_usage[i].service = service
                    /\ daily_usage[i].pydantic_model_name = pname}
    IN  IF hits = {} THEN 0 ELSE CHOOSE i \in hits : \A j \in hits : i <= j

\* UsageTracker.add_usage, lines 354-419 (everything but the final _save).
\* d1, d2, d3 are the three readings of the clock (lines 357, 423, 427).
AddUsage(usage_data, usage_report, model_name, service, pydantic_model_name, tool_names_called, d1, d2, d3) ==
    LET actual_pydantic_model_name ==
            IF pydantic_model_name = None THEN "N/A" ELSE pydantic_model_name[1]
        llm_usage_obj == IF usage_report.usage = None THEN DefaultUsage
                         ELSE usage_report.usage[1]
        input_tokens == OrDefault(llm_usage_obj.request_tokens, 0)
        output_tokens == OrDefault(llm_usage_obj.response_tokens, 0)
        total_tokens == OrDefault(llm_usage_obj.total_tokens, 0)
        requests == OrDefault(llm_usage_obj.requests, 1)
        cost == usage_report.cost
        with_stats ==
            pydantic_model_name # None /\ usage_report.fill_percentage # None
                /\ usage_report.fill_percentage[1] >= 0
        by_pydantic ==
            IF with_stats
            THEN UpdateStats(usage_data.fill_percentage_by_pydantic_model,
                             actual_pydantic_model_name, usage_report.fill_percentage[1])
            ELSE usage_data.fill_percentage_by_pydantic_model
        by_llm ==
            IF with_stats
            THEN UpdateStats(usage_data.fill_percentage_by_llm_model,
                             model_name, usage_report.fill_percentage[1])
            ELSE usage_data.fill_percentage_by_llm_model
        existing == FindUsageItem(usage_data.daily_usage, d1, model_name, service,
                                  actual_pydantic_model_name)
        daily ==
            IF existing # 0
            THEN [usage_data.daily_usage EXCEPT
                    ![existing].input_tokens = @ + input_tokens,
                    ![existing].output_tokens = @ + output_tokens,
                    ![existing].total_tokens = @ + total_tokens,
                    ![existing].requests = @ + requests,
                    ![existing].cost = @ + cost]
            ELSE Append(usage_data.daily_usage,
                        [month |-> MonthOf(d1), day |-> d1, model |-> model_name,
                         service |-> service,
                         pydantic_model_name |-> actual_pydantic_model_name,
                         input_tokens |-> input_tokens, output_tokens |-> output_tokens,
                         total_tokens |-> total_tokens, requests |-> requests,
                         cost |-> cost])
        tools == IF tool_names_called = None THEN usage_data.daily_tool_usage
                 ELSE CountTools(usage_data.daily_tool_usage, tool_names_called[1], d1)
    IN  [usage_today |-> CalculateUsageToday(daily, d2),
         usage_this_month |-> CalculateUsageThisMonth(daily, d3),
         daily_usage |-> daily,
         daily_tool_usage |-> tools,
         fill_percentage_by_pydantic_model |-> by_pydantic,
         fill_percentage_by_llm_model |-> by_llm]

\* The content of logs/usage.json is a ledger, or one of the degraded
\* states: no file, a file of zero bytes, text that is not JSON, and a JSON
\* document that does not validate as HelperUsage (a JSON list, or an
\* object whose daily_usage is not a list).
MissingFile == [degraded |-> "missing"]
EmptyFile == [degraded |-> "empty"]
NotJson == [degraded |-> "not json"]
MisfitFile == [degraded |-> "misfit"]
IsLedgerFile(file) == "degraded" \notin DOMAIN file

\* _create_empty_usage_file, lines 302-306: the content written
CreateEmptyUsageFile == EmptyUsage

\* variant: a failed write undoes the changes made in memory
MemoryAfterSaveErrorRolledBack(before, after) == before

\* usage_tracker.py lines 371-420: add_usage changes self.usage_data and
\* calls _save last; when _save raises nothing undoes the changes
MemoryAfterSaveError(before, after) == after

\* _load, lines 308-321: the error raised ("none" when it returns), the
\* ledger returned and the content of the file afterwards.  Only
\* FileNotFoundError and JSONDecodeError are caught.
Load(file) ==
    IF file \in {MissingFile, EmptyFile, NotJson}
    THEN [error |-> "none", usage_data |-> EmptyUsage, file |-> CreateEmptyUsageFile]
    ELSE IF file = MisfitFile
    THEN [error |-> "ValidationError", usage_data |-> EmptyUsage, file |-> file]
    ELSE [error |-> "none", usage_data |-> file, file |-> file]

\* UsageTracker.__init__, lines 293-300
NewUsageTracker(file) ==
    Load(IF file = MissingFile THEN CreateEmptyUsageFile ELSE file)

\* the sum of a field over a list of ledger items
RECURSIVE SumField(_, _)
SumField(items, field) ==
    IF items = << >> THEN 0 ELSE Head(items)[field] + SumField(Tail(items), field)

\* the key of an item in a grouping by the fields key
KeyOf(item, key) == [i \in DOMAIN key |-> item[key[i]]]

\* variant: a group keeps the values of its first item only
GroupTotalsFirstOnly(items, key, fields) ==
    [k \in {KeyOf(items[i], key) : i \in DOMAIN items} |->
        [f \in fields |-> SelectSeq(items, LAMBDA item : KeyOf(item, key) = k)[1][f]]]

\* one defaultdict loop of get_usage_summary, e.g. lines 487-495: for every
\* key the sums of the fields over the items with the key
GroupTotals(items, key, fields) ==
    [k \in {KeyOf(items[i], key) : i \in DOMAIN items} |->
        [f \in fields |-> SumField(SelectSeq(items, LAMBDA item : KeyOf(item, key) = k), f)]]

\* the sum of a field over the groups of a grouping
GroupSum(groups, field) ==
    LET RECURSIVE Over(_)
        Over(keys) == IF keys = {} THEN 0
                      ELSE LET k == CHOOSE x \in keys : TRUE
                           IN  groups[k][field] + Over(keys \ {k})
    IN  Over(DOMAIN groups)

LLMFields == {"requests", "input_tokens", "output_tokens", "total_tokens", "cost"}

\* get_usage_summary, lines 439-540, read at clock value day
GetUsageSummary(usage_data, day) ==
    LET by_model == GroupTotals(usage_data.daily_usage, <<"model">>, LLMFields)
        by_tool == GroupTotals(usage_data.daily_tool_usage, <<"tool_name">>, {"calls"})
    IN  [usage_today |-> CalculateUsageToday(usage_data.daily_usage, day),
         usage_this_month |-> CalculateUsageThisMonth(usage_data.daily_usage, day),
         daily_usage |-> GroupTotals(usage_data.daily_usage, <<"day", "model", "service", "pydantic_model_name">>, LLMFields),
         daily_tool_usage |-> GroupTotals(usage_data.daily_tool_usage, <<"day", "tool_name">>, {"calls"}),
         monthly_llm_summary |-> GroupTotals(usage_data.daily_usage, <<"month">>, LLMFields),
         monthly_tool_summary |-> GroupTotals(usage_data.daily_tool_usage, <<"month">>, {"calls"}),
         by_model |-> by_model,
         by_service |-> GroupTotals(usage_data.daily_usage, <<"service">>, LLMFields),
         usage_by_pydantic_model |-> GroupTotals(SelectSeq(usage_data.daily_usage, LAMBDA item : item.pydantic_model_name # "N/A"), <<"pydantic_model_name">>, LLMFields),
         by_tool |-> by_tool,
         fill_percentage_by_pydantic_model |-> usage_data.fill_percentage_by_pydantic_model,
         fill_percentage_by_llm_model |-> usage_data.fill_percentage_by_llm_model,
         total_llm_requests |-> GroupSum(by_model, "requests"),
         total_tool_calls |-> GroupSum(by_tool, "calls")]

\* Costs are integers in units of 10^-10 dollar, the precision get_cost_info
\* rounds to.  _save (lines 323-337): a float the JSON dump writes in
\* scientific notation (below 10^-5) is rewritten with 8 decimals.
SciLimit == 100000
CostStep == 100
DumpCost(c) == IF c < SciLimit THEN ((c + CostStep \div 2) \div CostStep) * CostStep ELSE c

\* the content of usage.json after _save
Dump(usage_data) ==
    [usage_data EXCEPT
        !.usage_today = DumpCost(@),
        !.usage_this_month = DumpCost(@),
        !.daily_usage = [i \in DOMAIN @ |-> [@[i] EXCEPT !.cost = DumpCost(@)]]]

\* --------------------------------------------------------- LLMInfoProvider
\* what https://openrouter.ai/api/v1/models returns when the fetch succeeds
RemoteModels ==
    << [id |-> <<"openai", "gpt">>, tools |-> TRUE,
        pricing |-> ("prompt" :> 3) @@ ("completion" :> 4)],
       [id |-> <<"anthropic", "claude-3">>, tools |-> TRUE,
        pricing |-> ("completion" :> 5)],
       [id |-> <<"google", "gemini">>, tools |-> FALSE,
        pricing |-> ("prompt" :> 1) @@ ("completion" :> 1)],
       [id |-> <<"openrouter", "auto">>, tools |-> TRUE,
        pricing |-> ("prompt" :> -1) @@ ("completion" :> -1)] >>

\* src/helpers/model_mappings.json: alias -> canonical id
model_mappings == (<<"anthropic", "claude">> :> <<"anthropic", "claude-3">>)

\* _init_cost_info with no cache file, lines 218-249: the content of
\* models.json afterwards (None: the fetch failed and nothing was written)
FetchModels(fetch_ok, time) ==
    IF fetch_ok
    THEN LET WithTools(m) == m.tools
         IN  Some([timestamp |-> time, data |-> SelectSeq(RemoteModels, WithTools)])
    ELSE None

\* get_model_info, lines 156-176, on the cached list
GetModelInfo(data, model) ==
    LET name == IF model \in DOMAIN model_mappings THEN model_mappings[model] ELSE model
        IsModel(m) == m.id = name
        result == SelectSeq(data, IsModel)
    IN  IF result = << >> THEN None ELSE Some(result[1])

\* get_cost_info, lines 178-192, with _get_models_data, lines 72-80.
\* Returns the error raised ("none" when it returns), the cost and the
\* content of models.json afterwards.
GetCostInfo(file, fetch_ok, time, model, usage) ==
    LET file1 == IF file = None THEN FetchModels(fetch_ok, time) ELSE file
        model_info == GetModelInfo(file1[1].data, model)
        pricing == model_info[1].pricing
        prompt_raises == "prompt" \in DOMAIN pricing /\ usage.request_tokens = None
        prompt_cost == IF "prompt" \in DOMAIN pricing /\ usage.request_tokens[1] > 0
                       THEN pricing["prompt"] * usage.request_tokens[1] ELSE 0
        completion_raises == "completion" \in DOMAIN pricing /\ usage.response_tokens = None
        completion_cost == IF "completion" \in DOMAIN pricing /\ usage.response_tokens[1] > 0
                           THEN pricing["completion"] * usage.response_tokens[1] ELSE 0
    IN  IF file1 = None
        THEN [error |-> "FileNotFoundError", cost |-> 0, file |-> file1]
        ELSE IF model_info = None
        THEN [error |-> "none", cost |-> 0, file |-> file1]
        ELSE IF prompt_raises \/ completion_raises
        THEN [error |-> "TypeError", cost |-> 0, file |-> file1]
        ELSE [error |-> "none", cost |-> prompt_cost + completion_cost, file |-> file1]

\* cache_duration (line 202) in days, the unit of the clock
CacheDuration == 1

\* _init_cost_info, lines 199-249: the content of models.json afterwards.
\* A cache younger than cache_duration is kept; otherwise the catalog is
\* fetched, and a failed fetch writes nothing.
InitCostInfo(file, fetch_ok, time) ==
    IF file # None /\ time - file[1].timestamp < CacheDuration THEN file
    ELSE IF fetch_ok THEN FetchModels(TRUE, time) ELSE file

\* _get_models_data, lines 72-80: the error raised ("none" when it
\* returns), the list returned and the content of models.json afterwards
GetModelsData(file, fetch_ok, time) ==
    LET file1 == IF file = None THEN InitCostInfo(file, fetch_ok, time) ELSE file
    IN  IF file1 = None
        THEN [error |-> "FileNotFoundError", data |-> << >>, file |-> file1]
        ELSE [error |-> "none", data |-> file1[1].data, file |-> file1]

\* get_models, lines 82-87
GetModels(file, fetch_ok, time) ==
    LET d == GetModelsData(file, fetch_ok, time)
    IN  [error |-> d.error, models |-> [i \in DOMAIN d.data |-> d.data[i].id], file |-> d.file]

\* ------------------------------------------------------------ _post_process
\* variant: the ratio is rounded to the nearest percent
FillPercentageRounded(filled_fields, total_fields) ==
    (200 * filled_fields + total_fields) \div (2 * total_fields)

\* int((filled_fields / total_fields) * 100), line 323: the product is
\* truncated.  The float product equals the exact one truncated for every
\* total_fields below 50.
FillPercentage(filled_fields, total_fields) ==
    (100 * filled_fields) \div total_fields

\* a string without '/' written as a string of one segment, so that it
\* compares with the 'provider/model' strings
Name(s) == <<s>>

\* _extract_tool_names, lines 330-339
ExtractToolNames(agent_result) == agent_result.tool_names

\* _post_process, lines 312-328.  Returns the error raised ("none" when it
\* returns), the report, the ledger and the content of models.json.
PostProcess(agent_result, model_name, provider, pydantic_model_name, ledger, file, fetch_ok, d1, d2, d3) ==
    LET filled_fields == agent_result.output.filled
        total_fields == agent_result.output.total
        c == GetCostInfo(file, fetch_ok, d1, model_name, agent_result.usage)
        error == IF c.error # "none" THEN c.error
                 ELSE IF total_fields = 0 THEN "ZeroDivisionError" ELSE "none"
        report == [model_name |-> model_name,
                   usage |-> Some(agent_result.usage),
                   cost |-> c.cost,
                   fill_percentage |-> Some(FillPercentage(filled_fields, total_fields)),
                   fallback_used |-> FALSE,
                   attempted_models |-> << >>]
    IN  IF error # "none"
        THEN [error |-> error, report |-> None, usage_data |-> ledger, file |-> c.file]
        ELSE [error |-> "none", report |-> Some(report),
              usage_data |-> AddUsage(ledger, report, Name(provider), model_name,
                                      Some(pydantic_model_name),
                                      Some(ExtractToolNames(agent_result)), d1, d2, d3),
              file |-> c.file]

\* --------------------------------------------------------- get_result
FilesOnDisk == {"doc.pdf"}

\* variant: the attachment is not looked at before the chain is run
CallerErrorNoFileCheck(llm_model_name, file) ==
    IF ~HasSlash(llm_model_name) THEN "ValueError" ELSE "none"

\* lines 61-62 and _prepare_prompt, lines 86-92: the error get_result raises
\* before the chain is built ("none" when it goes on)
CallerError(llm_model_name, file) ==
    IF ~HasSlash(llm_model_name) THEN "ValueError"
    ELSE IF file # None /\ file[1] \notin FilesOnDisk THEN "FileNotFoundError"
    ELSE "none"

\* variant: every provider name is taken as registered
KnownProviderAny(name) == TRUE

\* _get_llm_provider, line 342
KnownProvider(name) == name \in providers

\* variant: a failed candidate ends the loop
AfterFailureBreak(idx, n) == n + 1

\* variant: the loop passes over the next candidate
AfterFailureSkip(idx, n) == idx + 2

\* "continue" at line 177: the loop index after a failed candidate
AfterFailure(idx, n) == idx + 1

\* variant: the flag is set as soon as one model was attempted
FallbackUsedAny(attempted_models) == Len(attempted_models) > 0

\* line 163
FallbackUsed(attempted_models) == Len(attempted_models) > 1

\* ------------------------------------------ the two executors as functions
\* Each executor run on a chain whose candidates behave as
\* candidate_outcomes tells: candidate i raises candidate_outcomes[i].raises
\* before or in the provider call, or its call returns an output with the
\* given fields and run.  The ledger, models.json and the day are those
\* the run starts with.
\* lines 179-182: the final raise of the sync executor
Exhausted(attempted_models, last_error) ==
    [raised |-> TRUE, message |-> "All fallback models failed",
     attempted |-> attempted_models, last_error |-> last_error]

\* variant: the final raise does not name the last error
ExhaustedAsyncNoLast(attempted_models, last_error) ==
    [raised |-> TRUE, message |-> "All async fallback models failed",
     attempted |-> attempted_models, last_error |-> None]

\* lines 264-267: the final raise of the async executor
ExhaustedAsync(attempted_models, last_error) ==
    [raised |-> TRUE, message |-> "All async fallback models failed",
     attempted |-> attempted_models, last_error |-> last_error]

\* the agent output candidate_outcomes gives for a call that returns
OutputOf(outcome, full_model_name) ==
    [output |-> [filled |-> outcome.filled, total |-> outcome.total, by |-> full_model_name],
     usage |-> outcome.run.usage, tool_names |-> outcome.run.tool_names]

\* _execute_with_fallback, lines 99-182
ExecuteWithFallback(fallback_models, candidate_outcomes, pydantic_model, ledger, file, day) ==
    LET RECURSIVE Loop(_, _, _)
        Loop(idx, attempted_models, last_error) ==
            IF idx > Len(fallback_models) THEN Exhausted(attempted_models, last_error)
            ELSE LET model_info == fallback_models[idx]
                     full_model_name == FullName(model_info.provider, model_info.model)
                     attempted == Append(attempted_models, full_model_name)
                     outcome == candidate_outcomes[idx]
                     agent_output == OutputOf(outcome, full_model_name)   \* agent.run_sync, line 128
                     p == PostProcess(agent_output, full_model_name, model_info.provider,
                                      pydantic_model, ledger, file, TRUE, day, day, day)
                 IN  IF ~KnownProvider(model_info.provider)
                     THEN Loop(idx + 1, attempted, Some("ValueError"))
                     ELSE IF outcome.raises # None
                     THEN Loop(idx + 1, attempted, outcome.raises)
                     ELSE IF p.error # "none"
                     THEN Loop(idx + 1, attempted, Some(p.error))
                     ELSE [raised |-> FALSE, winner |-> idx, output |-> agent_output.output,
                           report |-> [p.report[1] EXCEPT
                                          !.attempted_models = attempted,
                                          !.fallback_used = FallbackUsed(attempted)],
                           usage_data |-> p.usage_data]
    IN  Loop(1, << >>, None)

\* _execute_with_fallback_async, lines 184-267
ExecuteWithFallbackAsync(fallback_models, candidate_outcomes, pydantic_model, ledger, file, day) ==
    LET RECURSIVE Loop(_, _, _)
        Loop(idx, attempted_models, last_error) ==
            IF idx > Len(fallback_models) THEN ExhaustedAsync(attempted_models, last_error)
            ELSE LET model_info == fallback_models[idx]
                     full_model_name == FullName(model_info.provider, model_info.model)
                     attempted == Append(attempted_models, full_model_name)
                     outcome == candidate_outcomes[idx]
                     agent_output == OutputOf(outcome, full_model_name)   \* await agent.run, line 217
                     p == PostProcess(agent_output, full_model_name, model_info.provider,
                                      pydantic_model, ledger, file, TRUE, day, day, day)
                 IN  IF ~KnownProvider(model_info.provider)
                     THEN Loop(idx + 1, attempted, Some("ValueError"))
                     ELSE IF outcome.raises # None
                     THEN Loop(idx + 1, attempted, outcome.raises)
                     ELSE IF p.error # "none"
                     THEN Loop(idx + 1, attempted, Some(p.error))
                     ELSE [raised |-> FALSE, winner |-> idx, output |-> agent_output.output,
                           report |-> [p.report[1] EXCEPT
                                          !.attempted_models = attempted,
                                          !.fallback_used = FallbackUsed(attempted)],
                           usage_data |-> p.usage_data]
    IN  Loop(1, << >>, None)

\* ------------------------------------------------------------------- state
VARIABLES
    configuration,    \* ConfigHelper.configuration (config.json as loaded)
    config_file,      \* content of config.json
    pc,               \* position of the current call
    req,              \* arguments of the current call
    cfg_raise,        \* which config read raised while the chain was built
    raw_chain,        \* fallback_chain before the duplicates are removed
    fallback_models,  \* the chain returned by _build_fallback_chain
    usage_data,       \* UsageTracker.usage_data
    usage_file,       \* content of logs/usage.json
    now,              \* the day datetime.now() reads
    history,          \* the add_usage calls made so far
    idx,              \* position of the fallback loop in fallback_models
    attempted_models, \* attempted_models of _execute_with_fallback
    last_error,       \* last_error of _execute_with_fallback
    result,           \* what get_result returned: output and report
    error,            \* what get_result raised
    calls,            \* positions whose agent.run / run_sync was issued
    outcomes,         \* how each attempted candidate ended
    models_file       \* content of models.json (the catalog cache)

vars == <<configuration, config_file, pc, req, cfg_raise, raw_chain, fallback_models,
          usage_data, usage_file, now, history,
          idx, attempted_models, last_error, result, error, calls, outcomes,
          models_file>>

exec_vars == <<pc, req, cfg_raise, raw_chain, fallback_models,
               idx, attempted_models, last_error, result, error, calls, outcomes,
               models_file>>
ledger_vars == <<usage_data, usage_file, now, history>>

\* no call of get_result has started
InitLoop ==
    /\ idx = 0
    /\ attempted_models = << >>
    /\ last_error = None
    /\ result = None
    /\ error = None
    /\ calls = << >>
    /\ outcomes = << >>

\* UsageTracker() on a missing usage.json, lines 293-307
InitLedger ==
    /\ usage_data = EmptyUsage
    /\ usage_file = EmptyUsage
    /\ now = 1
    /\ history = << >>

NoConfig == << >>     \* agent_config None or {} (both falsy at line 275)

\* ------------------------------------------- chain building on its own
ChainModels == {<<"gpt">>, <<"openai", "gpt">>}
ChainProviders == {"openai", "open_router"}
ChainItems == {Item(m, p) : m \in ChainModels, p \in ChainProviders}

SinglePart ==
    {NoConfig}
    \cup {("fallback_model" :> m) : m \in ChainModels}
    \cup {("fallback_model" :> m) @@ ("fallback_provider" :> p) :
             m \in ChainModels, p \in ChainProviders}
ChainPart ==
    {NoConfig} \cup {("fallback_chain" :> s) : s \in SeqUpTo(ChainItems, MaxOverride)}
AgentConfigs == {a @@ b : a \in SinglePart, b \in ChainPart}

Configurations(items, n) ==
    {[default_models |-> [primary |-> p, fallback_chain |-> c]] :
        p \in items, c \in SeqUpTo(items, n)}

RaisePoints == {"none", "model", "provider", "chain"}

InitChain ==
    /\ configuration \in Configurations(ChainItems, MaxSys)
    /\ config_file = configuration
    /\ req \in [llm_model_name : ChainModels, provider : ChainProviders,
                agent_config : AgentConfigs]
    /\ pc = "input"
    /\ cfg_raise = "none"
    /\ raw_chain = << >>
    /\ fallback_models = << >>
    /\ InitLoop
    /\ models_file = None
    /\ InitLedger

\* AiHelper._build_fallback_chain(primary_model, primary_provider, agent_config)
build_fallback_chain ==
    /\ pc = "input"
    /\ \E r \in RaisePoints :
        /\ cfg_raise' = r
        /\ raw_chain' = RawChain(req.llm_model_name, req.provider,
                                 req.agent_config, configuration, r)
        /\ fallback_models' = BuildFallbackChain(req.llm_model_name, req.provider,
                                                 req.agent_config, configuration, r)
    /\ pc' = "built"
    /\ UNCHANGED <<configuration, config_file, req>>
    /\ UNCHANGED <<idx, attempted_models, last_error, result, error, calls, outcomes,
                   models_file>>
    /\ UNCHANGED ledger_vars

NextChain == build_fallback_chain

SpecChain == InitChain /\ [][NextChain]_vars

\* ---------------------------------------------------------------- C3
Keys(chain) == {ItemKey(chain[i]) : i \in DOMAIN chain}

FirstIdx(chain, key) ==
    CHOOSE i \in DOMAIN chain :
        /\ ItemKey(chain[i]) = key
        /\ \A j \in 1..(i - 1) : ItemKey(chain[j]) # key

\* C3: the built chain has no two entries with the same "provider/model"
\* identity; every identity of the concatenated inputs appears exactly once,
\* as the entry of its first occurrence, and the survivors keep their order.
ChainDedup ==
    pc = "built" =>
        /\ \A i, j \in DOMAIN fallback_models :
              i # j => ItemKey(fallback_models[i]) # ItemKey(fallback_models[j])
        /\ Keys(fallback_models) = Keys(raw_chain)
        /\ \A i \in DOMAIN fallback_models :
              fallback_models[i] = raw_chain[FirstIdx(raw_chain, ItemKey(fallback_models[i]))]
        /\ \A i, j \in DOMAIN fallback_models :
              i < j => FirstIdx(raw_chain, ItemKey(fallback_models[i]))
                         < FirstIdx(raw_chain, ItemKey(fallback_models[j]))

\* the primary identity occurs again in the override list and in the system
\* chain, and a second identity is repeated as well
ChainDedupWitness ==
    /\ pc = "built"
    /\ Len(raw_chain) >= Len(fallback_models) + 3
    /\ Len(fallback_models) >= 2
    /\ \E i, j \in DOMAIN raw_chain :
          /\ 1 < i /\ i < j
          /\ ItemKey(raw_chain[i]) = ItemKey(raw_chain[1])
          /\ ItemKey(raw_chain[j]) = ItemKey(raw_chain[1])

\* ---------------------------------------------------------------- C4
PrimaryItem ==
    Item(IF req.provider # "open_router" THEN SplitLast(req.llm_model_name)
         ELSE req.llm_model_name, req.provider)

\* C4: the built chain has at least one entry and its first entry is the
\* primary (provider, model), for absent, empty and partial overrides and
\* when a read of the system fallbacks raises.
ChainNonEmpty ==
    pc = "built" =>
        /\ Len(fallback_models) >= 1
        /\ fallback_models[1] = PrimaryItem

\* no usable override and the first config read raises: only the primary
ChainNonEmptyWitness ==
    /\ pc = "built"
    /\ cfg_raise = "model"
    /\ DOMAIN req.agent_config = {"fallback_model"}
    /\ Len(fallback_models) = 1

\* the primary is repeated later in the chain and a config read raises
ChainNonEmptyWitnessDup ==
    /\ pc = "built"
    /\ cfg_raise = "chain"
    /\ \E i \in 2..Len(raw_chain) : ItemKey(raw_chain[i]) = ItemKey(raw_chain[1])

\* ---------------------------------------------------------------- C5
Normalised(item) ==
    Item(IF item.provider # "open_router" THEN SplitLast(item.model) ELSE item.model,
         item.provider)

HasSingle == {"fallback_model", "fallback_provider"} \subseteq DOMAIN req.agent_config
OverrideList ==
    IF "fallback_chain" \in DOMAIN req.agent_config
    THEN req.agent_config["fallback_chain"] ELSE << >>

\* C5: when the configuration is read without error, the chain before
\* deduplication is [primary], then the per-call single fallback (if both of
\* its keys are present), then the per-call list in its order, then the
\* system-wide single model, then the system-wide chain in its order.
ChainOrder ==
    (pc = "built" /\ cfg_raise = "none") =>
        LET s == IF HasSingle THEN 1 ELSE 0
            n == Len(OverrideList)
            sys == configuration.default_models
        IN  /\ Len(raw_chain) = 1 + s + n + 1 + Len(sys.fallback_chain)
            /\ raw_chain[1] = PrimaryItem
            /\ HasSingle =>
                  raw_chain[2] = Normalised(Item(req.agent_config["fallback_model"],
                                                 req.agent_config["fallback_provider"]))
            /\ \A i \in 1..n : raw_chain[1 + s + i] = Normalised(OverrideList[i])
            /\ raw_chain[2 + s + n] = Item(sys.primary.model, sys.primary.provider)
            /\ \A i \in 1..Len(sys.fallback_chain) :
                  raw_chain[2 + s + n + i] = Item(sys.fallback_chain[i].model,
                                                  sys.fallback_chain[i].provider)

\* all five parts are present and the two lists have two different entries
ChainOrderWitness ==
    /\ pc = "built"
    /\ cfg_raise = "none"
    /\ HasSingle
    /\ Len(OverrideList) = 2 /\ OverrideList[1] # OverrideList[2]
    /\ Len(configuration.default_models.fallback_chain) = 2
    /\ configuration.default_models.fallback_chain[1]
          # configuration.default_models.fallback_chain[2]
    /\ Len(raw_chain) = 7

\* ------------------------------------------------- the ledger on its own
MaxCalls == 2
MaxDay == 2

Usage(i, o, t, r) ==
    [request_tokens |-> i, response_tokens |-> o, total_tokens |-> t, requests |-> r]

LedgerReports ==
    { [usage |-> None, cost |-> 0, fill_percentage |-> None],
      [usage |-> Some(DefaultUsage), cost |-> 30, fill_percentage |-> Some(50)],
      [usage |-> Some(Usage(Some(1), Some(2), Some(3), Some(1))), cost |-> 120,
       fill_percentage |-> Some(80)] }

LedgerCalls ==
    [usage_report : LedgerReports, model_name : {"m1", "m2"}, service : {"s1", "s2"},
     pydantic_model_name : {None, Some("A")},
     tool_names_called : {None, Some(<<"t", "u", "t">>)}]

DefaultConfiguration ==
    [default_models |-> [primary |-> Item(<<"gpt-4">>, "openai"), fallback_chain |-> << >>]]

InitLedgerSpec ==
    /\ configuration = DefaultConfiguration
    /\ config_file = configuration
    /\ pc = "idle"
    /\ req = None
    /\ cfg_raise = "none"
    /\ raw_chain = << >>
    /\ fallback_models = << >>
    /\ InitLoop
    /\ models_file = None
    /\ InitLedger

\* the next reading of the clock after a reading of day d
Later(d) == {e \in {d, d + 1} : e <= MaxDay}

\* one call add_usage(c.usage_report, c.model_name, c.service,
\* c.pydantic_model_name, c.tool_names_called), with its final _save
RecordUsage(c) ==
    /\ Len(history) < MaxCalls
    /\ \E d2 \in Later(now) : \E d3 \in Later(d2) :
        /\ usage_data' = AddUsage(usage_data, c.usage_report, c.model_name, c.service,
                                  c.pydantic_model_name, c.tool_names_called,
                                  now, d2, d3)
        /\ usage_file' = Dump(usage_data')
        /\ now' = d3
        /\ history' = Append(history, [call |-> c, day |-> now])
    /\ UNCHANGED <<configuration, config_file, exec_vars>>

\* UsageTracker.add_usage(usage_report, model_name, service, pydantic_model_name,
\*                        tool_names_called)
add_usage == \E c \in LedgerCalls : RecordUsage(c)

\* a day passes between two calls
advance_clock ==
    /\ now < MaxDay
    /\ now' = now + 1
    /\ UNCHANGED <<configuration, config_file, exec_vars, usage_data, usage_file, history>>

NextLedger == add_usage \/ advance_clock

SpecLedger == InitLedgerSpec /\ [][NextLedger]_vars

\* ---------------------------------------------------------------- C9
RECURSIVE SumSeq(_)
SumSeq(q) == IF q = << >> THEN 0 ELSE Head(q) + SumSeq(Tail(q))

BucketKey(b) == <<b.day, b.model, b.service, b.pydantic_model_name>>
HistKey(h) ==
    <<h.day, h.call.model_name, h.call.service,
      IF h.call.pydantic_model_name = None THEN "N/A" ELSE h.call.pydantic_model_name[1]>>

\* the value a report carries for a field of its usage; an absent usage or
\* an absent field carries 0
ReportValue(report, field) ==
    IF report.usage = None THEN 0
    ELSE IF report.usage[1][field] = None THEN 0 ELSE report.usage[1][field][1]

\* the requests a report counts for: its request count, and 1 when it has none
ReportRequests(report) ==
    IF ReportValue(report, "requests") = 0 THEN 1 ELSE ReportValue(report, "requests")

HistSum(key, Val(_)) ==
    SumSeq([i \in DOMAIN history |->
              IF HistKey(history[i]) = key THEN Val(history[i].call.usage_report) ELSE 0])

In(r) == ReportValue(r, "request_tokens")
Out(r) == ReportValue(r, "response_tokens")
Tot(r) == ReportValue(r, "total_tokens")
Req(r) == ReportValue(r, "requests")
Cost(r) == r.cost

BucketsOf(key) ==
    {i \in DOMAIN usage_data.daily_usage : BucketKey(usage_data.daily_usage[i]) = key}

AggregationNewKeyWitness ==
    /\ Len(history) = 2
    /\ history[1].day = history[2].day
    /\ history[1].call.model_name = history[2].call.model_name
    /\ history[1].call.pydantic_model_name = history[2].call.pydantic_model_name
    /\ history[1].call.service # history[2].call.service
    /\ Len(usage_data.daily_usage) = 2

\* ---------------------------------------------------------------- C10
ToolKey(t) == <<t.day, t.tool_name>>

\* C10: no two daily_usage entries share (day, model, service, schema name)
\* and no two daily_tool_usage entries share (day, tool_name), in memory and
\* in the file.
LedgerKeysUnique ==
    \A u \in {usage_data, usage_file} :
        /\ \A i, j \in DOMAIN u.daily_usage :
              i # j => BucketKey(u.daily_usage[i]) # BucketKey(u.daily_usage[j])
        /\ \A i, j \in DOMAIN u.daily_tool_usage :
              i # j => ToolKey(u.daily_tool_usage[i]) # ToolKey(u.daily_tool_usage[j])

\* the same key and the same tools recorded twice on one day, and again on
\* the next day
LedgerKeysUniqueWitness ==
    /\ Len(history) = 2
    /\ HistKey(history[1]) = HistKey(history[2])
    /\ history[1].call.tool_names_called # None
    /\ history[2].call.tool_names_called # None
    /\ Len(usage_data.daily_usage) = 1
    /\ Len(usage_data.daily_tool_usage) = 2

LedgerKeysUniqueWitnessDays ==
    /\ Len(history) = 2
    /\ history[1].call = history[2].call
    /\ history[1].day # history[2].day
    /\ history[1].call.tool_names_called # None
    /\ Len(usage_data.daily_usage) = 2
    /\ Len(usage_data.daily_tool_usage) = 4

\* ------------------------------------------------------- the executor
MaxFields == 3

ExecModels == {<<"gpt">>, <<"openai", "gpt">>}
ExecProviders == {"openai", "open_router", "invalid_provider"}
ExecAgentConfigs ==
    { NoConfig,
      ("fallback_model" :> <<"anthropic", "claude">>) @@ ("fallback_provider" :> "anthropic"),
      ("fallback_chain" :> << Item(<<"openai", "gpt">>, "openai"),
                              Item(<<"gemini">>, "invalid_provider") >>) }
ExecFiles == {None, Some("doc.pdf"), Some("missing.pdf")}

ExecRequests ==
    [llm_model_name : ExecModels, provider : ExecProviders, file : ExecFiles,
     agent_config : ExecAgentConfigs, pydantic_model : {"SimpleTestModel"},
     async : BOOLEAN]

ExecConfigurations ==
    { DefaultConfiguration,
      [default_models |->
          [primary |-> Item(<<"gpt">>, "openai"),
           fallback_chain |-> <<Item(<<"anthropic", "claude">>, "anthropic")>>]] }

\* what a provider call can return: an output with total fields of which
\* filled are not None, the usage of the run and the tools the run called
AgentRuns ==
    { [usage |-> Usage(Some(10), Some(20), Some(30), Some(1)), tool_names |-> <<"t">>],
      [usage |-> DefaultUsage, tool_names |-> << >>] }
AgentResults(by) ==
    {[output |-> [filled |-> ft[1], total |-> ft[2], by |-> by],
      usage |-> r.usage, tool_names |-> r.tool_names] :
        ft \in {x \in (0..MaxFields) \X (0..MaxFields) : x[1] <= x[2]}, r \in AgentRuns}

\* a ledger an earlier request left behind
EarlierLedger ==
    AddUsage(EmptyUsage,
             [usage |-> Some(Usage(Some(10), Some(20), Some(30), Some(1))), cost |-> 110,
              fill_percentage |-> Some(50)],
             Name("openai"), <<"openai", "gpt">>, Some("SimpleTestModel"), Some(<< >>), 1, 1, 1)

Init ==
    /\ configuration \in ExecConfigurations
    /\ config_file = configuration
    /\ pc = "idle"
    /\ req = None
    /\ cfg_raise = "none"
    /\ raw_chain = << >>
    /\ fallback_models = << >>
    /\ InitLoop
    /\ models_file \in {None, FetchModels(TRUE, 0)}
    /\ usage_data \in {EmptyUsage, EarlierLedger}
    /\ usage_file = Dump(usage_data)
    /\ now = 1
    /\ history = << >>

\* get_result / get_result_async up to the start of the fallback loop,
\* lines 58-68 / 73-84 and 100
get_result ==
    /\ pc = "idle"
    /\ \E r \in ExecRequests :
        /\ req' = Some(r)
        /\ LET e == CallerError(r.llm_model_name, r.file)
           IN  IF e # "none"
               THEN /\ pc' = "raised"
                    /\ error' = Some([kind |-> e, attempted |-> << >>, last_error |-> None])
                    /\ UNCHANGED <<cfg_raise, raw_chain, fallback_models, idx>>
               ELSE /\ \E at \in RaisePoints :
                        /\ cfg_raise' = at
                        /\ raw_chain' = RawChain(r.llm_model_name, r.provider,
                                                 r.agent_config, configuration, at)
                        /\ fallback_models' =
                              BuildFallbackChain(r.llm_model_name, r.provider,
                                                 r.agent_config, configuration, at)
                    /\ pc' = "loop"
                    /\ idx' = 1
                    /\ error' = None
    /\ attempted_models' = << >>
    /\ last_error' = None
    /\ UNCHANGED <<configuration, config_file, result, calls, outcomes, models_file>>
    /\ UNCHANGED ledger_vars

\* variant: the except clause lets the candidate's error go to the caller
FailedEscapes(e) ==
    /\ last_error' = Some(e)
    /\ outcomes' = Append(outcomes, "failed")
    /\ idx' = idx
    /\ pc' = "raised"

\* the except clause of the loop, lines 167-177
Failed(e) ==
    /\ last_error' = Some(e)
    /\ outcomes' = Append(outcomes, "failed")
    /\ idx' = AfterFailure(idx, Len(fallback_models))
    /\ pc' = "loop"

\* one pass of the loop up to the provider call, lines 108-128 / 193-213
begin_attempt ==
    /\ pc = "loop"
    /\ idx <= Len(fallback_models)
    /\ LET model_info == fallback_models[idx]
           full_model_name == FullName(model_info.provider, model_info.model)
       IN  /\ attempted_models' = Append(attempted_models, full_model_name)
           /\ IF ~KnownProvider(model_info.provider)
              THEN /\ Failed("ValueError")
                   /\ UNCHANGED calls
              ELSE \/ /\ Failed("SetupError")     \* the model or agent constructor raises
                      /\ UNCHANGED calls
                   \/ /\ pc' = "calling"
                      /\ calls' = Append(calls, idx)
                      /\ UNCHANGED <<last_error, outcomes, idx>>
    /\ UNCHANGED <<configuration, config_file, req, cfg_raise, raw_chain, fallback_models,
                   result, error, models_file>>
    /\ UNCHANGED ledger_vars

\* the provider call raises, lines 139-159 and 167-177
call_fails ==
    /\ pc = "calling"
    /\ \E e \in {"UnexpectedModelBehavior", "Exception"} : Failed(e)
    /\ UNCHANGED <<configuration, config_file, req, cfg_raise, raw_chain, fallback_models,
                   attempted_models, result, error, calls, models_file>>
    /\ UNCHANGED ledger_vars

\* the provider call returns and the result is post-processed, lines 128-165
call_returns ==
    /\ pc = "calling"
    /\ LET model_info == fallback_models[idx]
           full_model_name == FullName(model_info.provider, model_info.model)
       IN  \E agent_output \in AgentResults(full_model_name),
              fetch_ok \in IF models_file = None THEN BOOLEAN ELSE {TRUE},
              d2 \in Later(now) : \E d3 \in Later(d2) :
             LET p == PostProcess(agent_output, full_model_name, model_info.provider,
                                  req[1].pydantic_model, usage_data, models_file,
                                  fetch_ok, now, d2, d3)
             IN  /\ models_file' = p.file
                 /\ IF p.error # "none"
                    THEN /\ Failed(p.error)
                         /\ UNCHANGED <<result, ledger_vars>>
                    ELSE /\ result' =
                              Some([output |-> agent_output.output,
                                    report |-> [p.report[1] EXCEPT
                                        !.attempted_models = attempted_models,
                                        !.fallback_used = FallbackUsed(attempted_models)]])
                         /\ usage_data' = p.usage_data
                         /\ usage_file' = Dump(p.usage_data)
                         /\ now' = d3
                         /\ history' = Append(history,
                               [call |-> [usage_report |-> p.report[1],
                                          model_name |-> Name(model_info.provider),
                                          service |-> full_model_name,
                                          pydantic_model_name |-> Some(req[1].pydantic_model),
                                          tool_names_called |-> Some(agent_output.tool_names)],
                                day |-> now])
                         /\ outcomes' = Append(outcomes, "succeeded")
                         /\ pc' = "returned"
                         /\ UNCHANGED <<last_error, idx>>
    /\ UNCHANGED <<configuration, config_file, req, cfg_raise, raw_chain, fallback_models,
                   attempted_models, error, calls>>

\* every candidate failed, lines 179-182 / 264-267
all_failed ==
    /\ pc = "loop"
    /\ idx > Len(fallback_models)
    /\ pc' = "raised"
    /\ error' = Some([kind |-> "Exception", attempted |-> attempted_models,
                      last_error |-> last_error])
    /\ UNCHANGED <<configuration, config_file, req, cfg_raise, raw_chain, fallback_models,
                   idx, attempted_models, last_error, result, calls, outcomes,
                   models_file>>
    /\ UNCHANGED ledger_vars

Next == get_result \/ begin_attempt \/ call_fails \/ call_returns \/ all_failed

Spec == Init /\ [][Next]_vars

\* ---------------------------------------------------------------- C1
ChainKeys(n) == [i \in 1..n |-> ItemKey(fallback_models[i])]
Range(q) == {q[i] : i \in DOMAIN q}
Unknown(j) == fallback_models[j].provider \notin providers

\* C1: when get_result / get_result_async returns, the candidate k that
\* succeeded is the first one that did; the output is k's output, exactly the
\* candidates 1..k were attempted, in chain order, none after k, the report's
\* attempted_models are the identities of entries 1..k and fallback_used is
\* (k > 1).
SuccessShortCircuit ==
    pc = "returned" =>
        LET k == Len(attempted_models)
            report == result[1].report
        IN  /\ k >= 1 /\ k <= Len(fallback_models)
            /\ outcomes = [i \in 1..k |-> IF i < k THEN "failed" ELSE "succeeded"]
            /\ result[1].output.by = ItemKey(fallback_models[k])
            /\ report.model_name = ItemKey(fallback_models[k])
            /\ attempted_models = ChainKeys(k)
            /\ report.attempted_models = ChainKeys(k)
            /\ report.fallback_used = (k > 1)
            /\ \A c \in Range(calls) : c <= k
            /\ calls # << >> /\ calls[Len(calls)] = k
            /\ error = None

\* scenario A: the primary openai/gpt fails and the single per-call
\* fallback anthropic/claude succeeds
SuccessShortCircuitWitness ==
    /\ pc = "returned"
    /\ Len(fallback_models) > 2
    /\ attempted_models = << <<"openai", "gpt">>, <<"anthropic", "claude">> >>
    /\ result[1].report.fallback_used
    /\ req[1].async

\* the primary succeeds at once, in the sync path
SuccessFirstWitness ==
    /\ pc = "returned"
    /\ Len(fallback_models) > 1
    /\ Len(attempted_models) = 1
    /\ ~result[1].report.fallback_used
    /\ ~req[1].async

\* ---------------------------------------------------------------- C2
\* C2: the aggregate error is raised only after every one of the N
\* candidates was attempted once, in chain order, and failed; its attempted
\* list holds the N identities; nothing is returned.
FallbackExhaustion ==
    LET n == Len(fallback_models)
    IN  /\ (pc = "raised" /\ error[1].kind = "Exception") =>
              /\ outcomes = [i \in 1..n |-> "failed"]
              /\ attempted_models = ChainKeys(n)
              /\ error[1].attempted = ChainKeys(n)
              /\ error[1].last_error = last_error /\ last_error # None
              /\ \A i, j \in DOMAIN calls : i < j => calls[i] < calls[j]
              /\ result = None
        /\ (pc = "loop" /\ outcomes = [i \in 1..n |-> "failed"]) => idx = n + 1
        /\ (pc \in {"loop", "calling"} /\ Len(outcomes) < n) =>
              /\ idx = Len(outcomes) + 1
              /\ \A i \in DOMAIN outcomes : outcomes[i] = "failed"

\* four candidates fail, some before and some in the provider call
FallbackExhaustionWitness ==
    /\ pc = "raised"
    /\ error[1].kind = "Exception"
    /\ Len(error[1].attempted) = 4
    /\ Len(calls) = 2
    /\ \E j \in 1..4 : Unknown(j)

\* ---------------------------------------------------------------- C6
BadName(r) == ~HasSlash(r.llm_model_name)
BadFile(r) == r.file # None /\ r.file[1] \notin FilesOnDisk

\* C6: a call whose model identifier has no '/' raises ValueError and a call
\* whose attachment does not exist raises FileNotFoundError, in the step
\* that starts the call: no chain is built, no candidate is attempted, no
\* provider call is made, and ledger (memory and file) and catalog cache
\* stay as they were; nothing happens after the error.
CallerErrorsBeforeAttempts ==
    [][ /\ (pc = "idle" /\ req' # None /\ (BadName(req'[1]) \/ BadFile(req'[1]))) =>
            /\ pc' = "raised"
            /\ error'[1].kind = IF BadName(req'[1]) THEN "ValueError"
                                ELSE "FileNotFoundError"
            /\ error'[1].attempted = << >>
            /\ fallback_models' = << >> /\ raw_chain' = << >>
            /\ attempted_models' = << >> /\ calls' = << >> /\ outcomes' = << >>
            /\ last_error' = None /\ result' = None
            /\ UNCHANGED <<usage_data, usage_file, history, models_file>>
        /\ (pc = "raised" /\ error[1].kind # "Exception") => UNCHANGED vars
      ]_vars

\* scenario B: "gpt" passed as the primary model
CallerErrorWitness ==
    /\ pc = "raised"
    /\ error[1].kind = "ValueError"
    /\ req[1].llm_model_name = <<"gpt">>
    /\ usage_data = EarlierLedger
    /\ models_file # None

CallerErrorFileWitness ==
    /\ pc = "raised"
    /\ error[1].kind = "FileNotFoundError"
    /\ req[1].file = Some("missing.pdf")

\* ---------------------------------------------------------------- C7
\* C7 as stated: once a candidate with an unregistered provider was tried,
\* no further candidate is attempted and what the call raises is the
\* ValueError.
UnknownProviderOriginal ==
    \A j \in DOMAIN outcomes :
        Unknown(j) =>
            /\ Len(attempted_models) = j
            /\ pc = "raised" => error[1].kind = "ValueError"

\* C7 (amended): a candidate with an unregistered provider fails before any
\* provider call is made for it; the ValueError is caught like any other
\* failure of a candidate: the identity is in attempted_models, the loop
\* goes on with the next candidate, and the caller sees an error only as the
\* aggregate error after the whole chain failed.
UnknownProviderIsAttemptFailure ==
    \A j \in DOMAIN outcomes :
        Unknown(j) =>
            /\ outcomes[j] = "failed"
            /\ j \notin Range(calls)
            /\ attempted_models[j] = ItemKey(fallback_models[j])
            /\ idx > j
            /\ pc \in {"loop", "calling", "returned", "raised"}
            /\ pc = "raised" =>
                  /\ error[1].kind = "Exception"
                  /\ Len(error[1].attempted) = Len(fallback_models)
            /\ (pc = "loop" /\ Len(outcomes) = j) => last_error = Some("ValueError")

\* the primary names an unregistered provider and a fallback answers
UnknownProviderWitness ==
    /\ pc = "returned"
    /\ Unknown(1)
    /\ attempted_models[1] = <<"invalid_provider", "gpt">>
    /\ Len(attempted_models) = 2
    /\ result[1].report.fallback_used

\* ---------------------------------------------------------------- C8
\* round(a / b) as Python rounds: to the nearest integer, ties to even
RoundNearest(a, b) ==
    LET q == a \div b
        r == a % b
    IN  IF 2 * r < b THEN q
        ELSE IF 2 * r > b THEN q + 1
        ELSE IF q % 2 = 0 THEN q ELSE q + 1

OutputFilled == result[1].output.filled
OutputTotal == result[1].output.total
ReportFill == result[1].report.fill_percentage[1]

\* C8 as stated: fill_percentage is round(100 * F / T) and lies in [0, 100].
FillPercentageOriginal ==
    pc = "returned" =>
        /\ ReportFill = RoundNearest(100 * OutputFilled, OutputTotal)
        /\ ReportFill \in 0..100

\* C8 (amended): fill_percentage is 100 * F / T truncated to an integer (the
\* largest integer p with p * T <= 100 * F), and lies in [0, 100]; the
\* output of a returned request has at least one field.
FillPercentageTruncates ==
    pc = "returned" =>
        /\ OutputTotal >= 1
        /\ ReportFill * OutputTotal <= 100 * OutputFilled
        /\ 100 * OutputFilled < (ReportFill + 1) * OutputTotal
        /\ ReportFill \in 0..100

\* two of three fields are filled: 66, not 67
FillPercentageWitness ==
    /\ pc = "returned"
    /\ OutputFilled = 2 /\ OutputTotal = 3
    /\ ReportFill = 66


\* ---------------------------------------------------------------- C11
\* a recorded call that carries a fill percentage for a schema
CarriesFill(h) ==
    /\ h.call.pydantic_model_name # None
    /\ h.call.usage_report.fill_percentage # None
    /\ h.call.usage_report.fill_percentage[1] >= 0

\* the recorded calls that carry a fill percentage, by schema name and by
\* model identity
FillCallsOfSchema(name) ==
    SelectSeq(history, LAMBDA h : CarriesFill(h) /\ h.call.pydantic_model_name[1] = name)
FillCallsOfModel(name) ==
    SelectSeq(history, LAMBDA h : CarriesFill(h) /\ h.call.model_name = name)
FillSum(q) == SumSeq([i \in DOMAIN q |-> q[i].call.usage_report.fill_percentage[1]])

StatsMatch(stats, name, q) ==
    IF q = << >> THEN name \notin DOMAIN stats
    ELSE /\ name \in DOMAIN stats
         /\ stats[name].count = Len(q)
         /\ stats[name].sum_total = FillSum(q)
         /\ stats[name].average = Quot(FillSum(q), Len(q))

SchemaNames == {c.pydantic_model_name[1] : c \in {d \in LedgerCalls : d.pydantic_model_name # None}}
ModelNames == {c.model_name : c \in LedgerCalls}

\* C11: after the calls that carry fill percentages p_1..p_n for a schema
\* name, the schema's tracker has count = n, sum_total = p_1 + ... + p_n
\* and average = sum_total / count; the same holds for the tracker of each
\* model identity; every tracked name has count > 0 and
\* average * count = sum_total.
RunningMean ==
    /\ \A name \in SchemaNames :
          StatsMatch(usage_data.fill_percentage_by_pydantic_model, name, FillCallsOfSchema(name))
    /\ \A name \in ModelNames :
          StatsMatch(usage_data.fill_percentage_by_llm_model, name, FillCallsOfModel(name))
    /\ \A stats \in {usage_data.fill_percentage_by_pydantic_model, usage_data.fill_percentage_by_llm_model} :
          \A name \in DOMAIN stats :
             /\ stats[name].count > 0
             /\ stats[name].average.den = stats[name].count
             /\ stats[name].average.num = stats[name].sum_total

\* two calls with percentages 50 and 80 for one schema, through two models
RunningMeanWitness ==
    /\ Len(history) = 2
    /\ CarriesFill(history[1]) /\ CarriesFill(history[2])
    /\ history[1].call.model_name # history[2].call.model_name
    /\ usage_data.fill_percentage_by_pydantic_model["A"] = [average |-> Quot(130, 2), count |-> 2, sum_total |-> 130]
    /\ usage_data.fill_percentage_by_llm_model["m1"].count = 1
    /\ usage_data.fill_percentage_by_llm_model["m2"].count = 1

\* a call without a schema name between two that carry one is not counted
RunningMeanSkipWitness ==
    /\ Len(history) = 2
    /\ CarriesFill(history[1]) /\ ~CarriesFill(history[2])
    /\ history[2].call.model_name = history[1].call.model_name
    /\ usage_data.fill_percentage_by_llm_model[history[1].call.model_name].count = 1

\* ------------------------------------------------------------ the catalog
\* One LLMInfoProvider and its cache file models.json.  req is the call
\* made last, with the day it was made and the outcome of the fetch it
\* made ("none": it made no fetch); result is what the call returned, error what it raised;
\* last_error remembers that a fetch of this run has failed.
CachedModels ==
    << [id |-> <<"openai", "gpt">>, tools |-> TRUE, pricing |-> ("prompt" :> 2)] >>

CatalogFiles == {None, Some([timestamp |-> 0, data |-> CachedModels]), Some([timestamp |-> 1, data |-> CachedModels])}

CatalogModels == {<<"openai", "gpt">>, <<"anthropic", "claude">>, <<"google", "gemini">>, <<"gpt">>, <<"openrouter", "auto">>}

CatalogUsages == {DefaultUsage, Usage(Some(0), Some(0), Some(0), Some(1)), Usage(Some(1), Some(2), Some(3), Some(1))}

InitCatalog ==
    /\ configuration = DefaultConfiguration
    /\ config_file = configuration
    /\ pc = "new"
    /\ req = None
    /\ cfg_raise = "none"
    /\ raw_chain = << >>
    /\ fallback_models = << >>
    /\ InitLoop
    /\ models_file \in CatalogFiles
    /\ InitLedger

FetchOutcome(attempted, fetch_ok) ==
    IF ~attempted THEN "none" ELSE IF fetch_ok THEN "ok" ELSE "failed"

CatalogCall(call, fetch, out, value) ==
    /\ req' = Some(call @@ [fetch |-> fetch, time |-> now])
    /\ models_file' = out.file
    /\ result' = IF out.error = "none" THEN Some(value) ELSE None
    /\ error' = IF out.error = "none" THEN None ELSE Some([kind |-> out.error])
    /\ pc' = "ready"
    /\ last_error' = IF fetch = "failed" THEN Some("fetch failed") ELSE last_error
    /\ UNCHANGED <<configuration, config_file, cfg_raise, raw_chain, fallback_models, idx, attempted_models, calls, outcomes, ledger_vars>>

\* LLMInfoProvider(), lines 9-12
LLMInfoProvider ==
    LET valid == models_file # None /\ now - models_file[1].timestamp < CacheDuration
    IN  \E fetch_ok \in IF valid THEN {TRUE} ELSE BOOLEAN :
           CatalogCall([op |-> "LLMInfoProvider"], FetchOutcome(~valid, fetch_ok),
                       [error |-> "none", file |-> InitCostInfo(models_file, fetch_ok, now)], "self")

\* LLMInfoProvider.get_models()
get_models ==
    /\ pc = "ready"
    /\ \E fetch_ok \in IF models_file = None THEN BOOLEAN ELSE {TRUE} :
          LET out == GetModels(models_file, fetch_ok, now)
          IN  CatalogCall([op |-> "get_models"], FetchOutcome(models_file = None, fetch_ok), out, out.models)

\* LLMInfoProvider.get_cost_info(model, usage)
get_cost_info ==
    /\ pc = "ready"
    /\ \E model \in CatalogModels, usage \in CatalogUsages :
       \E fetch_ok \in IF models_file = None THEN BOOLEAN ELSE {TRUE} :
          LET out == GetCostInfo(models_file, fetch_ok, now, model, usage)
          IN  CatalogCall([op |-> "get_cost_info", model |-> model, usage |-> usage],
                          FetchOutcome(models_file = None, fetch_ok), out, out.cost)

NextCatalog == LLMInfoProvider \/ get_models \/ get_cost_info \/ advance_clock

SpecCatalog == InitCatalog /\ [][NextCatalog]_vars

\* ---------------------------------------------------------------- C12
\* C12: a call of the catalog during which the remote fetch fails raises
\* nothing; get_models then returns the empty list and get_cost_info
\* returns 0.
FetchFailureAbsorbed ==
    (req # None /\ req[1].fetch = "failed") =>
        /\ error = None
        /\ req[1].op = "get_models" => result = Some(<< >>)
        /\ req[1].op = "get_cost_info" => result = Some(0)

\* ---------------------------------------------------------------- C13
\* the identity is in the remote catalog, after alias resolution
InCatalog(name) == GetModelInfo(FetchModels(TRUE, 0)[1].data, name) # None

CandidateName(j) == FullName(fallback_models[j].provider, fallback_models[j].model)

\* C13: a request won by an identity that is not in the catalog returns a
\* report of cost 0, and the cost lookup never turns a candidate that is
\* not in the catalog into a failed attempt.
UnknownModelCostsNothing ==
    /\ (pc = "returned" /\ ~InCatalog(CandidateName(idx))) => result[1].report.cost = 0
    /\ (pc = "loop" /\ idx > 1 /\ ~InCatalog(CandidateName(idx - 1))) =>
          last_error # Some("FileNotFoundError")

\* ------------------------------------------------- the tracker's file
\* A UsageTracker is constructed over a ledger file in any state and then
\* records calls.  req is the state of the file the constructor found.
\* the ledger an earlier tracker saved
SavedLedger ==
    AddUsage(EmptyUsage,
             [usage |-> Some(Usage(Some(10), Some(20), Some(30), Some(1))), cost |-> 110,
              fill_percentage |-> Some(50)],
             "m1", "s1", Some("A"), None, 1, 1, 1)

TrackerFiles ==
    {MissingFile, EmptyFile, NotJson, MisfitFile, Dump(EmptyUsage), Dump(SavedLedger)}

InitTracker ==
    /\ configuration = DefaultConfiguration
    /\ config_file = configuration
    /\ pc = "new"
    /\ req = None
    /\ cfg_raise = "none"
    /\ raw_chain = << >>
    /\ fallback_models = << >>
    /\ InitLoop
    /\ models_file = None
    /\ usage_data = EmptyUsage
    /\ usage_file \in TrackerFiles
    /\ now = 1
    /\ history = << >>

\* tracker = UsageTracker()
UsageTracker ==
    /\ pc = "new"
    /\ LET t == NewUsageTracker(usage_file)
       IN  /\ req' = Some(usage_file)
           /\ usage_file' = t.file
           /\ usage_data' = t.usage_data
           /\ error' = IF t.error = "none" THEN None ELSE Some([kind |-> t.error])
           /\ pc' = IF t.error = "none" THEN "ready" ELSE "raised"
    /\ UNCHANGED <<configuration, config_file, cfg_raise, raw_chain, fallback_models, idx, attempted_models, last_error, result, calls, outcomes, models_file, now, history>>

\* the calls made on the tracker constructed
TrackerCalls == {c \in LedgerCalls : c.model_name = "m1" /\ c.service = "s1" /\ c.pydantic_model_name # None /\ c.tool_names_called = None}

\* tracker.add_usage(...)
tracker_add_usage == pc = "ready" /\ \E c \in TrackerCalls : RecordUsage(c)

NextTracker == UsageTracker \/ tracker_add_usage \/ advance_clock

SpecTracker == InitTracker /\ [][NextTracker]_vars

\* ---------------------------------------------------------------- C14
\* C14: constructing a UsageTracker succeeds for every state of the ledger
\* file; from a degraded file the tracker starts with the empty ledger and
\* the file is recreated with the default content.
LedgerFileNeverFatal ==
    (req # None /\ history = << >>) =>
        /\ pc = "ready"
        /\ error = None
        /\ ~IsLedgerFile(req[1]) => (usage_data = EmptyUsage /\ usage_file = Dump(EmptyUsage))

\* ---------------------------------------------------------------- C15
\* C15: after a request won by a candidate, the ledger has a bucket of the
\* day whose model is the winning 'provider/model' identity and whose
\* service is the provider name, and the per-model fill tracker has the
\* identity as a key.
LedgerKeyFields ==
    pc = "returned" =>
        LET identity == CandidateName(idx)
            provider == Name(fallback_models[idx].provider)
        IN  /\ \E i \in DOMAIN usage_data.daily_usage :
                  /\ usage_data.daily_usage[i].day = history[Len(history)].day
                  /\ usage_data.daily_usage[i].model = identity
                  /\ usage_data.daily_usage[i].service = provider
                  /\ usage_data.daily_usage[i].pydantic_model_name = req[1].pydantic_model
            /\ identity \in DOMAIN usage_data.fill_percentage_by_llm_model

\* ---------------------------------------------------------------- C16
\* C16: for every content of the catalog and every token usage the cost
\* that get_cost_info returns, which is the cost of the report, is not
\* negative.
CostNonNegative ==
    (req # None /\ req[1].op = "get_cost_info" /\ result # None) => result[1] >= 0

\* ---------------------------------------------------------------- C17
\* the bucket at index i of new is the one at i of old, or an empty one,
\* grown by the report's requests, tokens and cost; no other bucket differs
RecordingAt(old, new, i, report) ==
    /\ DOMAIN new = (DOMAIN old) \cup {i}
    /\ \A j \in DOMAIN old : j # i => new[j] = old[j]
    /\ LET before == IF i \in DOMAIN old THEN old[i]
                     ELSE [new[i] EXCEPT !.requests = 0, !.input_tokens = 0, !.output_tokens = 0, !.total_tokens = 0, !.cost = 0]
       IN  new[i] = [before EXCEPT !.requests = @ + ReportRequests(report),
                                   !.input_tokens = @ + In(report),
                                   !.output_tokens = @ + Out(report),
                                   !.total_tokens = @ + Tot(report),
                                   !.cost = @ + Cost(report)]

OnlyWinnerStep ==
    /\ pc' # "returned" => UNCHANGED <<usage_data, usage_file>>
    /\ (pc # "returned" /\ pc' = "returned") =>
          /\ \E i \in DOMAIN usage_data'.daily_usage :
                RecordingAt(usage_data.daily_usage, usage_data'.daily_usage, i, result'[1].report)
          /\ Len(usage_file'.daily_usage) = Len(usage_data'.daily_usage)

OnlyWinnerExhaustedWitness ==
    /\ pc = "raised"
    /\ Len(attempted_models) = 2
    /\ last_error = Some("ZeroDivisionError")
    /\ usage_data = EarlierLedger
    /\ usage_file = Dump(EarlierLedger)

\* ---------------------------------------------------------------- C18
\* the error is a caller error: raised by the checks of the arguments,
\* with no candidate attempted
IsCallerError(e) ==
    /\ CallerError(req[1].llm_model_name, req[1].file) # "none"
    /\ e = [kind |-> CallerError(req[1].llm_model_name, req[1].file), attempted |-> << >>, last_error |-> None]
    /\ outcomes = << >> /\ calls = << >>

\* the error is the aggregate one: every candidate of the chain failed, the
\* error names them all and the error of the last one
IsAggregateError(e) ==
    LET n == Len(fallback_models)
    IN  /\ n >= 1
        /\ outcomes = [i \in 1..n |-> "failed"]
        /\ last_error # None
        /\ e = [kind |-> "Exception", attempted |-> ChainKeys(n), last_error |-> last_error]

\* C18: what get_result / get_result_async raises is a caller error or the
\* aggregate error; while neither is the case no error has left the call,
\* whatever failed before (reading the configuration, a candidate, the
\* catalog file or its fetch).
PropagationPolicy ==
    /\ pc = "raised" => (error # None /\ (IsCallerError(error[1]) \/ IsAggregateError(error[1])))
    /\ pc \in {"loop", "calling", "returned"} => error = None

\* the configuration could not be read and the catalog had no file and
\* could not be fetched: the request ends in the aggregate error
PropagationPolicyWitness ==
    /\ pc = "raised"
    /\ cfg_raise # "none"
    /\ models_file = None
    /\ last_error = Some("FileNotFoundError")
    /\ IsAggregateError(error[1])
    /\ Len(fallback_models) >= 2

\* the same failures absorbed by a request that returns
PropagationPolicyReturnWitness ==
    /\ pc = "returned"
    /\ cfg_raise # "none"
    /\ Len(outcomes) = 3
    /\ last_error = Some("FileNotFoundError")
    /\ error = None

\* ------------------------------------------------------- the configuration
\* One ConfigHelper over config.json.  req is the call made last and its
\* number; error is what it raised.
MaxConfigCalls == 3

FullConfigFile ==
    [default_models |-> DefaultConfiguration.default_models,
     model_mappings |-> ("alias_a" :> "model_a"),
     file_capable_models |-> << >>,
     excluded_models |-> <<"model_c">>,
     mode |-> "strict"]

ConfigFiles == {DefaultConfiguration, FullConfigFile}

ConfigKeys == (DOMAIN FullConfigFile) \cup {"non_existent_key"}
ConfigValues == {"model_d", "model_e"}

InitConfig ==
    /\ config_file \in ConfigFiles
    /\ configuration = LoadConfig(config_file)
    /\ pc = "ready"
    /\ req = None
    /\ cfg_raise = "none"
    /\ raw_chain = << >>
    /\ fallback_models = << >>
    /\ InitLoop
    /\ models_file = None
    /\ InitLedger

CallNumber == IF req = None THEN 0 ELSE req[1].n

ConfigCall(op, key, value, out) ==
    /\ req' = Some([op |-> op, key |-> key, value |-> value, n |-> CallNumber + 1])
    /\ configuration' = out.configuration
    /\ config_file' = IF out.save THEN SaveConfig(out.configuration) ELSE config_file
    /\ error' = IF out.error = "none" THEN None ELSE Some([kind |-> out.error])
    /\ UNCHANGED <<pc, cfg_raise, raw_chain, fallback_models, idx, attempted_models, last_error, result, calls, outcomes, models_file, ledger_vars>>

\* ConfigHelper.append_config_list(key, value)
append_config_list ==
    /\ CallNumber < MaxConfigCalls
    /\ \E key \in ConfigKeys, value \in ConfigValues :
          ConfigCall("append_config_list", key, value, AppendConfigList(configuration, key, value))

\* ConfigHelper.append_config(key, value), lines 45-47
append_config ==
    /\ CallNumber < MaxConfigCalls
    /\ \E kv \in {<<"mode", "loose">>, <<"mode", "strict">>, <<"excluded_models", << >> >>} :
          ConfigCall("append_config", kv[1], kv[2],
                     [error |-> "none", save |-> TRUE,
                      configuration |-> [configuration EXCEPT ![kv[1]] = kv[2]]])

NextConfig == append_config_list \/ append_config

SpecConfig == InitConfig /\ [][NextConfig]_vars

\* ---------------------------------------------------------------- C19
ConfigListAppendStep ==
    (req' # req /\ req'[1].op = "append_config_list") =>
        LET key == req'[1].key
            v == req'[1].value
        IN  /\ key \in {"file_capable_models", "excluded_models"} =>
                  /\ configuration' = [configuration EXCEPT ![key] = Append(@, v)]
                  /\ config_file' = configuration'
                  /\ error' = None
            /\ key \in {"mode", "model_mappings", "default_models"} =>
                  /\ error' = Some([kind |-> "ValueError"])
                  /\ UNCHANGED <<configuration, config_file>>

\* C19: append_config_list(key, v) on a key that holds a list puts v at
\* the end of the list, leaves the rest of the configuration alone and
\* writes the configuration so that the file equals it; on a key that
\* holds something else it raises ValueError and changes neither the
\* configuration nor the file.
ConfigListAppend == [][ConfigListAppendStep]_vars

\* two values appended to excluded_models of a file that had one
ConfigListAppendWitness ==
    /\ req # None /\ req[1].op = "append_config_list" /\ error = None
    /\ configuration.excluded_models = <<"model_c", "model_d", "model_e">>
    /\ config_file = configuration

\* 'mode' refused while the file still differs from the loaded
\* configuration
ConfigListAppendRefusedWitness ==
    /\ req # None /\ req[1].op = "append_config_list" /\ req[1].key = "mode"
    /\ error = Some([kind |-> "ValueError"])
    /\ config_file = DefaultConfiguration
    /\ configuration = LoadConfig(DefaultConfiguration)

\* ---------------------------------------------------------------- C20
\* C20: in the sync and the async path alike, the attempts started are a
\* prefix of the chain in chain order; at most one of them has not ended,
\* and only while its provider call is out; every attempt before the last
\* one started has ended in failure; the provider calls were issued in
\* chain order, one per candidate at most.
SequentialAttempts ==
    LET a == Len(attempted_models)
        o == Len(outcomes)
    IN  /\ a <= Len(fallback_models)
        /\ attempted_models = ChainKeys(a)
        /\ a - o \in {0, 1}
        /\ (a - o = 1) <=> (pc = "calling")
        /\ \A j \in 1..o : j < a => outcomes[j] = "failed"
        /\ \A j \in 1..o : outcomes[j] = "succeeded" => (j = a /\ pc = "returned")
        /\ \A i, j \in DOMAIN calls : i < j => calls[i] < calls[j]
        /\ \A i \in DOMAIN calls : calls[i] <= a
        /\ pc = "calling" => (idx = a /\ calls # << >> /\ calls[Len(calls)] = a)

\* the third candidate's call is out in the async path, after the first
\* two failed, one of them in its provider call
SequentialAttemptsWitness ==
    /\ pc = "calling"
    /\ req[1].async
    /\ Len(attempted_models) = 3
    /\ outcomes = <<"failed", "failed">>
    /\ Len(calls) = 2

\* ---------------------------------------------------------------- C21
\* C21: after every add_usage the content of the file equals the ledger in
\* memory: the same buckets, tool counters, fill-percentage trackers,
\* usage_today and usage_this_month.
LedgerPersisted ==
    history # << >> => usage_file = usage_data

\* ------------------------------------------------------- the summary
\* A tracker records calls and is then asked for its summary; result is
\* the summary returned.
SummaryCalls ==
    {c \in LedgerCalls : c.usage_report.usage # None /\ c.usage_report.usage[1].requests = Some(1)}

\* tracker.add_usage(...) before the summary is asked for
summary_add_usage == pc = "idle" /\ \E c \in SummaryCalls : RecordUsage(c)

\* tracker.get_usage_summary()
get_usage_summary ==
    /\ pc = "idle"
    /\ pc' = "summarised"
    /\ result' = Some(GetUsageSummary(usage_data, now))
    /\ UNCHANGED <<configuration, config_file, req, cfg_raise, raw_chain, fallback_models, idx, attempted_models, last_error, error, calls, outcomes, models_file, ledger_vars>>

NextSummary == summary_add_usage \/ get_usage_summary \/ advance_clock

SpecSummary == InitLedgerSpec /\ [][NextSummary]_vars

\* ---------------------------------------------------------------- C22
SummaryGroupings == {"daily_usage", "monthly_llm_summary", "by_model", "by_service"}

SummaryConservative(summary, ledger) ==
    /\ \A g \in SummaryGroupings : \A f \in LLMFields :
          GroupSum(summary[g], f) = SumField(ledger.daily_usage, f)
    /\ \A g \in {"daily_tool_usage", "monthly_tool_summary", "by_tool"} :
          GroupSum(summary[g], "calls") = SumField(ledger.daily_tool_usage, "calls")
    /\ summary.total_llm_requests = SumField(ledger.daily_usage, "requests")
    /\ summary.total_tool_calls = SumField(ledger.daily_tool_usage, "calls")

SummaryStep ==
    (pc = "idle" /\ pc' = "summarised") =>
        /\ UNCHANGED <<usage_data, usage_file>>
        /\ SummaryConservative(result'[1], usage_data)

\* C22: get_usage_summary changes nothing in the ledger, in memory or in
\* the file; in the summary it returns, the requests, tokens and cost of
\* the groups of each grouping (by day key, by month, by model, by
\* service) add up to the totals over all buckets, the tool groupings add
\* up to the calls of all tool counters, and total_llm_requests and
\* total_tool_calls are these totals.
SummaryPure == [][SummaryStep]_vars

\* the summary of two buckets of two models under one service, with tools
SummaryWitness ==
    /\ pc = "summarised"
    /\ Len(usage_data.daily_usage) = 2
    /\ Cardinality(DOMAIN result[1].by_model) = 2
    /\ Cardinality(DOMAIN result[1].by_service) = 1
    /\ result[1].total_llm_requests = 2
    /\ result[1].total_tool_calls = 6

\* ---------------------------------------------------------------- C23
\* the occurrences of a tool name in the calls recorded on a day
Occurrences(day, name) ==
    SumSeq([i \in DOMAIN history |->
              IF history[i].day = day /\ history[i].call.tool_names_called # None
              THEN Len(SelectSeq(history[i].call.tool_names_called[1], LAMBDA t : t = name))
              ELSE 0])

ToolNames == UNION {Range(c.tool_names_called[1]) : c \in {d \in LedgerCalls : d.tool_names_called # None}}

CountersOf(day, name) ==
    {i \in DOMAIN usage_data.daily_tool_usage :
        ToolKey(usage_data.daily_tool_usage[i]) = <<day, name>>}

\* C23: the counter of a tool on a day is the number of occurrences of
\* its name in tool_names_called of the calls of that day; there is no
\* counter for a tool on a day without an occurrence.
ToolCounters ==
    \A day \in 1..MaxDay, name \in ToolNames :
        IF Occurrences(day, name) = 0 THEN CountersOf(day, name) = {}
        ELSE /\ Cardinality(CountersOf(day, name)) = 1
             /\ \A i \in CountersOf(day, name) :
                   /\ usage_data.daily_tool_usage[i].calls = Occurrences(day, name)
                   /\ usage_data.daily_tool_usage[i].month = MonthOf(day)

\* the tools t, u, t called on one day and again on the next
ToolCountersWitness ==
    /\ Len(history) = 2
    /\ history[1].day # history[2].day
    /\ Len(usage_data.daily_tool_usage) = 4
    /\ \A i \in CountersOf(1, "t") : usage_data.daily_tool_usage[i].calls = 2
    /\ \A i \in CountersOf(2, "u") : usage_data.daily_tool_usage[i].calls = 1

\* the same tools called twice on one day
ToolCountersSameDayWitness ==
    /\ Len(history) = 2
    /\ history[1].day = history[2].day
    /\ Len(usage_data.daily_tool_usage) = 2
    /\ \A i \in CountersOf(history[1].day, "t") : usage_data.daily_tool_usage[i].calls = 4

\* ---------------------------------------------------------------- C24
\* the cache file the last call read was younger than cache_duration
CacheFresh == models_file # None /\ req[1].time - models_file[1].timestamp < CacheDuration

\* C24: while no fetch from the remote endpoint has failed, a lookup
\* (get_models, get_cost_info) that returns is served from a cache file
\* younger than cache_duration.
NoStaleCatalogServed ==
    (/\ req # None
     /\ req[1].op \in {"get_models", "get_cost_info"}
     /\ error = None
     /\ last_error = None) => CacheFresh


\* ------------------------------------------------- two trackers, one file
\* Two UsageTracker instances over one usage.json, no lock (there is none
\* in usage_tracker.py).  In this specification usage_data[t] is
\* self.usage_data of instance t and pc[t] tells whether t has been
\* constructed; history records which instance made each call.
Trackers == {1, 2}

SharedCalls ==
    {c \in LedgerCalls :
        /\ c.model_name = "m1" /\ c.service = "s1"
        /\ c.pydantic_model_name = None /\ c.tool_names_called = None
        /\ c.usage_report.usage # None}
    \cup {[usage_report |-> [usage |-> Some(Usage(Some(1), Some(2), Some(3), Some(2))),
                             cost |-> 120, fill_percentage |-> None],
           model_name |-> "m1", service |-> "s1", pydantic_model_name |-> None,
           tool_names_called |-> None]}

InitShared ==
    /\ configuration = DefaultConfiguration
    /\ config_file = configuration
    /\ pc = [t \in Trackers |-> "new"]
    /\ req = None
    /\ cfg_raise = "none"
    /\ raw_chain = << >>
    /\ fallback_models = << >>
    /\ InitLoop
    /\ models_file = None
    /\ usage_data = [t \in Trackers |-> EmptyUsage]
    /\ usage_file = MissingFile
    /\ now = 1
    /\ history = << >>

\* UsageTracker() by instance t, lines 293-300: the file is read once
shared_load(t) ==
    /\ pc[t] = "new"
    /\ LET tracker == NewUsageTracker(usage_file)
       IN  /\ usage_file' = tracker.file
           /\ usage_data' = [usage_data EXCEPT ![t] = tracker.usage_data]
    /\ pc' = [pc EXCEPT ![t] = "ready"]
    /\ UNCHANGED <<configuration, config_file, req, cfg_raise, raw_chain, fallback_models, idx, attempted_models, last_error, result, error, calls, outcomes, models_file, now, history>>

\* add_usage by instance t, lines 354-420: the instance's own copy is
\* updated and written over the file (_save, lines 321-337)
shared_add_usage(t) ==
    /\ pc[t] = "ready"
    /\ Len(history) < MaxCalls
    /\ \E c \in SharedCalls : \E d2 \in Later(now) : \E d3 \in Later(d2) :
        LET ledger == AddUsage(usage_data[t], c.usage_report, c.model_name, c.service,
                               c.pydantic_model_name, c.tool_names_called, now, d2, d3)
        IN  /\ usage_data' = [usage_data EXCEPT ![t] = ledger]
            /\ usage_file' = Dump(ledger)
            /\ now' = d3
            /\ history' = Append(history, [call |-> c, day |-> now, tracker |-> t])
    /\ UNCHANGED <<configuration, config_file, exec_vars>>

NextShared ==
    \/ \E t \in Trackers : shared_load(t)
    \/ \E t \in Trackers : shared_add_usage(t)
    \/ advance_clock

SpecShared == InitShared /\ [][NextShared]_vars

\* ---------------------------------------------------------------- C25
\* the request count the file holds, over all its buckets
PersistedRequests ==
    IF IsLedgerFile(usage_file) THEN SumField(usage_file.daily_usage, "requests") ELSE 0

\* the requests of the add_usage calls completed so far
RecordedRequests ==
    SumSeq([i \in DOMAIN history |-> ReportRequests(history[i].call.usage_report)])

\* C25: while only one tracker instance has been constructed over the
\* file, the request count the file holds equals the requests recorded;
\* with two instances it never exceeds them (and can fall short of them).
SingleWriterKeepsAll ==
    /\ (\E t \in Trackers : pc[t] = "new") => PersistedRequests = RecordedRequests
    /\ PersistedRequests <= RecordedRequests

\* both instances have completed an add_usage and the file lacks the
\* request of one of them
LostUpdateWitness ==
    /\ \A t \in Trackers : \E i \in DOMAIN history : history[i].tracker = t
    /\ PersistedRequests < RecordedRequests

\* one instance alone has recorded two calls
SingleWriterWitness ==
    /\ \E t \in Trackers : pc[t] = "new"
    /\ Len(history) = 2
    /\ PersistedRequests = RecordedRequests

\* ------------------------------------------------- cancellation
\* get_result_async with the caller's task cancelled while the provider
\* call is suspended at "await agent.run(user_prompt)", line 217.
\* asyncio.CancelledError derives from BaseException, so neither the
\* inner "except Exception" (line 237) nor the loop's (line 252) sees it.
\* outcomes records "cancelled" for the call that was cancelled.
InitCancel ==
    /\ Init
    /\ usage_data = EmptyUsage
    /\ models_file # None

\* variant: the loop's except clause catches the cancellation
CancelledCaught ==
    /\ last_error' = Some("CancelledError")
    /\ idx' = idx + 1
    /\ pc' = "loop"
    /\ error' = error

\* CancelledError leaves _execute_with_fallback_async and get_result_async
Cancelled ==
    /\ pc' = "raised"
    /\ error' = Some([kind |-> "CancelledError", attempted |-> attempted_models,
                      last_error |-> last_error])
    /\ UNCHANGED <<idx, last_error>>

cancel ==
    /\ pc = "calling"
    /\ req[1].async
    /\ Cancelled
    /\ outcomes' = Append(outcomes, "cancelled")
    /\ UNCHANGED <<configuration, config_file, req, cfg_raise, raw_chain, fallback_models,
                   attempted_models, result, calls, models_file>>
    /\ UNCHANGED ledger_vars

NextCancel == get_result \/ begin_attempt \/ call_fails \/ call_returns \/ all_failed \/ cancel

SpecCancel == InitCancel /\ [][NextCancel]_vars

InitWriteFail ==
    /\ Init
    /\ configuration = DefaultConfiguration
    /\ models_file # None
    /\ usage_data = EmptyUsage

\* the provider results after which the write is let fail
WriteFailResults(by) == {r \in AgentResults(by) : r.output.filled = 1 /\ r.output.total = 1}

\* the provider call returns and add_usage raises from _save: lines
\* 128-165 with the except clause of lines 167-177
save_fails ==
    /\ pc = "calling"
    /\ LET model_info == fallback_models[idx]
           full_model_name == FullName(model_info.provider, model_info.model)
       IN  \E agent_output \in WriteFailResults(full_model_name),
              fetch_ok \in IF models_file = None THEN BOOLEAN ELSE {TRUE},
              d2 \in Later(now) : \E d3 \in Later(d2) :
             LET p == PostProcess(agent_output, full_model_name, model_info.provider,
                                  req[1].pydantic_model, usage_data, models_file,
                                  fetch_ok, now, d2, d3)
             IN  /\ p.error = "none"
                 /\ models_file' = p.file
                 /\ usage_data' = MemoryAfterSaveError(usage_data, p.usage_data)
                 /\ usage_file' = usage_file
                 /\ now' = d3
                 /\ history' = Append(history,
                       [call |-> [usage_report |-> p.report[1],
                                  model_name |-> Name(model_info.provider),
                                  service |-> full_model_name,
                                  pydantic_model_name |-> Some(req[1].pydantic_model),
                                  tool_names_called |-> Some(agent_output.tool_names)],
                        day |-> now])
                 /\ Failed("OSError")
    /\ UNCHANGED <<configuration, config_file, req, cfg_raise, raw_chain, fallback_models,
                   attempted_models, result, error, calls>>

NextWriteFail == get_result \/ begin_attempt \/ call_fails \/ call_returns \/ save_fails \/ all_failed

SpecWriteFail == InitWriteFail /\ [][NextWriteFail]_vars

\* ---------------------------------------------------------------- C27
\* the errors _post_process raises in the model
PostProcessErrors == {"ZeroDivisionError", "TypeError", "FileNotFoundError", "OSError"}

MemoryRequests(ledger) == SumField(ledger.daily_usage, "requests")

\* a step in which candidate idx's provider call returned and its
\* post-processing raised
PostProcessFails ==
    /\ pc = "calling"
    /\ last_error' # None
    /\ last_error'[1] \in PostProcessErrors
    /\ outcomes' = Append(outcomes, "failed")

\* C27: when the post-processing of candidate k raises, k's output is not
\* returned and the loop goes on with candidate k+1 (the chain-exhausted
\* error when k was the last); after a ledger write error the entry of k
\* is in the ledger in memory, after the other errors the ledger is as
\* before.
PostProcessFailureStep ==
    PostProcessFails =>
        /\ pc' = "loop"
        /\ idx' = idx + 1
        /\ result' = None
        /\ error' = None
        /\ IF last_error' = Some("OSError")
           THEN /\ Len(history') = Len(history) + 1
                /\ MemoryRequests(usage_data') =
                      MemoryRequests(usage_data)
                      + ReportRequests(history'[Len(history')].call.usage_report)
           ELSE UNCHANGED <<usage_data, usage_file, history>>

PostProcessFailure == [][PostProcessFailureStep]_vars

\* one request made two provider calls that returned: the ledger write
\* failed for the first candidate, the second candidate won, and the
\* ledger in memory holds an entry for each
PostProcessFailureWitness ==
    /\ pc = "returned"
    /\ outcomes = <<"failed", "succeeded">>
    /\ last_error = Some("OSError")
    /\ Len(history) = 2
    /\ MemoryRequests(usage_data) = 2

\* the fill percentage of an output with no fields raised for the first
\* candidate and the second one won
PostProcessFailureZeroWitness ==
    /\ pc = "returned"
    /\ outcomes = <<"failed", "succeeded">>
    /\ last_error = Some("ZeroDivisionError")
    /\ Len(history) = 1

\* ------------------------------------------------- sync against async
\* Both executors are run on one chain with one behaviour of its
\* candidates.  fallback_models is the chain, outcomes the behaviour of
\* each candidate, result the pair of what the two executors end in.
MaxChain == 2

EquivItems ==
    {Item(<<"gpt">>, "openai"), Item(<<"anthropic", "claude">>, "anthropic"),
     Item(<<"gemini">>, "invalid_provider")}

CandidateOutcomes ==
    {[raises |-> Some(e), filled |-> 0, total |-> 0, run |-> r] :
        e \in {"SetupError", "UnexpectedModelBehavior", "Exception"},
        r \in {[usage |-> DefaultUsage, tool_names |-> << >>]}}
    \cup {[raises |-> None, filled |-> ft[1], total |-> ft[2], run |-> r] :
        ft \in {<<0, 0>>, <<1, 2>>}, r \in AgentRuns}

InitEquiv ==
    /\ configuration = DefaultConfiguration
    /\ config_file = configuration
    /\ pc = "idle"
    /\ req = None
    /\ cfg_raise = "none"
    /\ raw_chain = << >>
    /\ \E n \in 1..MaxChain :
          /\ fallback_models \in [1..n -> EquivItems]
          /\ outcomes \in [1..n -> CandidateOutcomes]
    /\ idx = 0
    /\ attempted_models = << >>
    /\ last_error = None
    /\ result = None
    /\ error = None
    /\ calls = << >>
    /\ models_file = FetchModels(TRUE, 0)
    /\ usage_data \in {EmptyUsage, EarlierLedger}
    /\ usage_file = Dump(usage_data)
    /\ now \in 1..MaxDay
    /\ history = << >>

execute_both ==
    /\ pc = "idle"
    /\ pc' = "compared"
    /\ result' = Some([sync |-> ExecuteWithFallback(fallback_models, outcomes, "SimpleTestModel",
                                                    usage_data, models_file, now),
                       async |-> ExecuteWithFallbackAsync(fallback_models, outcomes, "SimpleTestModel",
                                                          usage_data, models_file, now)])
    /\ UNCHANGED <<configuration, config_file, req, cfg_raise, raw_chain, fallback_models, idx, attempted_models, last_error, error, calls, outcomes, models_file, ledger_vars>>

NextEquiv == execute_both

SpecEquiv == InitEquiv /\ [][NextEquiv]_vars

\* ---------------------------------------------------------------- C28
\* C28 as stated: the two executors end in the same result or in the same
\* chain-exhausted failure.
SyncAsyncSame == result # None => result[1].sync = result[1].async

\* C28: the two executors end both in a result or both in the
\* chain-exhausted failure; the results are equal (winner, output,
\* attempted_models, fallback_used, ledger), the failures name the same
\* attempted models and the same last error.
SyncAsyncEquivalent ==
    result # None =>
        LET s == result[1].sync
            a == result[1].async
        IN  /\ s.raised = a.raised
            /\ ~s.raised => s = a
            /\ s.raised => /\ s.attempted = a.attempted
                           /\ s.last_error = a.last_error
                           /\ Len(a.attempted) = Len(fallback_models)

\* both candidates of a chain fail, the second one in its post-processing
SyncAsyncExhaustedWitness ==
    /\ result # None
    /\ result[1].async.raised
    /\ Len(result[1].async.attempted) = 2
    /\ result[1].async.last_error = Some("ZeroDivisionError")

\* the second candidate wins in both executors
SyncAsyncFallbackWitness ==
    /\ result # None
    /\ ~result[1].async.raised
    /\ result[1].sync.winner = 2
    /\ result[1].sync.report.fallback_used

\* ---------------------------------------------------------------- C29
\* the entries the caller supplied, as written: the primary, the single
\* override (when model and provider are both given) and the override list
CallerEntries ==
    LET a == req.agent_config
    IN  <<Item(req.llm_model_name, req.provider)>>
        \o (IF "fallback_model" \in DOMAIN a /\ "fallback_provider" \in DOMAIN a
            THEN <<Item(a["fallback_model"], a["fallback_provider"])>> ELSE << >>)
        \o (IF "fallback_chain" \in DOMAIN a THEN a["fallback_chain"] ELSE << >>)

\* the entries of the system configuration that were read, as written
SystemEntries ==
    LET d == configuration.default_models
    IN  IF cfg_raise \in {"model", "provider"} THEN << >>
        ELSE IF cfg_raise = "chain" THEN <<d.primary>>
        ELSE <<d.primary>> \o d.fallback_chain

\* the text after the first '/'
AfterFirstSlash(model) == SubSeq(model, 2, Len(model))

MaxIterations == 3

\* get_config_value('max_iterations', 2), line 25
DefaultMaxIterations == 2

\* get_config_value('quality_threshold', 0.85), line 26
QualityThreshold == 85

Scores == {50, 85, 90}

\* variant: a high score ends the loop in the first iteration too
StopsEarlyAnyIteration(score, quality_threshold, iteration) == score > quality_threshold

\* line 59 (sentiment_workflow.py line 56)
StopsEarly(score, quality_threshold, iteration) ==
    score > quality_threshold /\ iteration > 0

\* variant: the feedback of the last iteration is applied as well
AppliesFeedbackAlways(iteration, max_iterations) == iteration < max_iterations

\* line 64 (sentiment_workflow.py line 60)
AppliesFeedback(iteration, max_iterations) == iteration < max_iterations - 1

InitWorkflow ==
    /\ configuration = DefaultConfiguration
    /\ config_file = configuration
    /\ pc = "start"
    /\ req = None
    /\ cfg_raise = "none"
    /\ raw_chain = << >>
    /\ fallback_models = << >>
    /\ InitLoop
    /\ models_file = None
    /\ InitLedger

workflow_vars == <<configuration, config_file, cfg_raise, raw_chain, fallback_models, attempted_models, last_error, calls, outcomes, models_file, usage_data, usage_file, now>>

\* what execute returns after the loop, lines 86-91 (sentiment_workflow.py
\* lines 89-96)
Returned(locals) ==
    [success |-> TRUE, final_edit |-> Some(locals.current_edit),
     final_feedback |-> locals.final_feedback]

\* sentiment_workflow.py lines 98-110: the except clause of execute
FailureReturn == [success |-> FALSE, final_edit |-> None, final_feedback |-> None]

\* execute(file_path, max_iterations) up to the loop, lines 16-46
execute ==
    /\ pc = "start"
    /\ \E w \in {"editing", "sentiment"}, max_iterations \in {None} \cup {Some(m) : m \in 0..MaxIterations} :
          req' = Some([workflow |-> w,
                       max_iterations |-> OrDefault(max_iterations, DefaultMaxIterations),
                       quality_threshold |-> QualityThreshold,
                       current_edit |-> 0, final_feedback |-> None])
    /\ idx' = 0
    /\ pc' = "feedback"
    /\ UNCHANGED <<workflow_vars, history, result, error>>

\* the end of the loop: the editing workflow returns, the sentiment
\* workflow goes on to its sentiment stage
AfterLoop(locals) ==
    IF locals.workflow = "editing"
    THEN /\ pc' = "done"
         /\ result' = Some(Returned(locals))
    ELSE /\ pc' = "sentiment"
         /\ result' = result

\* provide_feedback returns, lines 48-61 and 64
provide_feedback ==
    /\ pc = "feedback"
    /\ \E score \in Scores :
        LET feedback == [quality_score |-> score, iteration |-> idx]
            locals == [req[1] EXCEPT !.final_feedback = Some(feedback)]
        IN  /\ req' = Some(locals)
            /\ history' = Append(history, [op |-> "feedback", feedback |-> feedback])
            /\ IF StopsEarly(score, locals.quality_threshold, idx)
               THEN AfterLoop(locals) /\ idx' = idx
               ELSE IF AppliesFeedback(idx, locals.max_iterations)
               THEN pc' = "apply" /\ idx' = idx /\ result' = result
               ELSE IF idx + 1 < locals.max_iterations
               THEN pc' = "feedback" /\ idx' = idx + 1 /\ result' = result
               ELSE AfterLoop(locals) /\ idx' = idx + 1
    /\ UNCHANGED <<workflow_vars, error>>

\* apply_feedback returns, lines 65-78, and the loop goes round
apply_feedback ==
    /\ pc = "apply"
    /\ req' = Some([req[1] EXCEPT !.current_edit = @ + 1])
    /\ history' = Append(history, [op |-> "apply", iteration |-> idx])
    /\ idx' = idx + 1
    /\ IF idx + 1 < req[1].max_iterations
       THEN pc' = "feedback" /\ result' = result
       ELSE AfterLoop(req[1])
    /\ UNCHANGED <<workflow_vars, error>>

\* sentiment_workflow.py lines 74-96: the sentiment stage and the return
analyze ==
    /\ pc = "sentiment"
    /\ pc' = "done"
    /\ result' = Some(Returned(req[1]))
    /\ UNCHANGED <<workflow_vars, req, idx, history, error>>

\* an agent call of the loop or the sentiment stage raises: the editing
\* workflow lets the error out, the sentiment workflow returns its
\* failure record
agent_raises ==
    /\ pc \in {"feedback", "apply", "sentiment"}
    /\ IF req[1].workflow = "editing"
       THEN /\ pc' = "raised"
            /\ error' = Some([kind |-> "Exception"])
            /\ result' = result
       ELSE /\ pc' = "done"
            /\ error' = error
            /\ result' = Some(FailureReturn)
    /\ UNCHANGED <<workflow_vars, req, idx, history>>

NextWorkflow == execute \/ provide_feedback \/ apply_feedback \/ analyze \/ agent_raises

SpecWorkflow == InitWorkflow /\ [][NextWorkflow]_vars

\* ---------------------------------------------------------------- C30
FeedbackCount == Len(SelectSeq(history, LAMBDA h : h.op = "feedback"))
ApplyCount == Len(SelectSeq(history, LAMBDA h : h.op = "apply"))
Completed == pc = "done" /\ result # None /\ result[1].success

\* C30: with max_iterations = m the loop receives feedback at most m times
\* and applies it at most m - 1 times, feedback and apply alternating from
\* a feedback; a run that completes has received feedback at least once,
\* ends with a feedback and not an apply, and returns that feedback as
\* final_feedback; it stops after the first feedback only when m = 1, and
\* before m feedbacks exactly when the score of an iteration after the
\* first exceeded the threshold.
FeedbackLoopBounded ==
    req # None =>
        LET m == req[1].max_iterations
            n == Len(history)
        IN  /\ m >= 1
            /\ FeedbackCount <= m
            /\ ApplyCount <= m - 1
            /\ \A i \in 1..n : history[i].op = (IF i % 2 = 1 THEN "feedback" ELSE "apply")
            /\ \A i \in 1..n : history[i].op = "feedback" => history[i].feedback.iteration = (i - 1) \div 2
            /\ \A i \in 1..n :
                  (/\ history[i].op = "feedback"
                   /\ history[i].feedback.iteration > 0
                   /\ history[i].feedback.quality_score > req[1].quality_threshold) => i = n
            /\ pc = "apply" => (n > 0 /\ history[n].op = "feedback" /\ FeedbackCount < m)
            /\ Completed =>
                  /\ FeedbackCount >= 1
                  /\ history[n].op = "feedback"
                  /\ result[1].final_feedback = Some(history[n].feedback)
                  /\ result[1].final_edit = Some(ApplyCount)
                  /\ FeedbackCount = 1 => m = 1
                  /\ FeedbackCount < m =>
                        /\ history[n].feedback.iteration > 0
                        /\ history[n].feedback.quality_score > req[1].quality_threshold

\* three iterations allowed, a high score in the first one does not stop
\* the loop, a high score in the second one does
FeedbackLoopWitness ==
    /\ Completed
    /\ req[1].workflow = "editing"
    /\ req[1].max_iterations = 3
    /\ Len(history) = 3
    /\ history[1].feedback.quality_score > QualityThreshold
    /\ history[3].feedback.quality_score > QualityThreshold

\* the loop runs to its bound: m feedbacks and m - 1 applies
FeedbackLoopFullWitness ==
    /\ Completed
    /\ req[1].max_iterations = 3
    /\ FeedbackCount = 3
    /\ ApplyCount = 2
====
